---- MODULE Spec2Model ----
(***************************************************************************)
(* SEI metadata injection of the WHIP demo: the SEI publisher (bounded     *)
(* message queue, SEI NAL codec, frame injector), the SEI facade and the   *)
(* video frame hook.  Bytes are the integers 0..255, a buffer is a         *)
(* sequence of bytes, and C's 0-based index i is At(buffer, i).            *)
(***************************************************************************)
EXTENDS Integers, Sequences, FiniteSets, TLC

(***************************************************************************)
(* Program constants                                                       *)
(***************************************************************************)
SEI_MAX_PAYLOAD_SIZE == 400
SEI_MAX_QUEUE_SIZE == 15
SEI_DEFAULT_REPEAT_COUNT == 3
SEI_TYPE_USER_DATA_UNREGISTERED == 5
SEI_PAYLOAD_TERMINATION == 128
NAL_UNIT_TYPE_SEI == 6

SEND_SEI_UUID ==
  <<63, 138, 43, 28, 77, 94, 111, 112, 129, 146, 163, 180, 197, 214, 231, 248>>

(***************************************************************************)
(* Bounds of the model                                                     *)
(***************************************************************************)
\* facade calls that pass the size check in a behaviour of Spec
MaxSend == 1
\* messages resident when a behaviour of SpecQueue starts
QueuePrefill == 14
\* further enqueues in a behaviour of SpecQueue
MaxQueueSend == 2
\* frame-processing calls in a behaviour of Spec
MaxFrames == 1
\* frame-processing calls in a behaviour of SpecQueue
MaxQueueFrames == 1
\* clear_queue calls in a behaviour
MaxClear == 1
\* failing allocations in a behaviour
MaxFailures == 1
\* frame calls of a stream
MaxStreamFrames == 2
\* arbitrary bytes at the end of a payload
MaxTail == 3
\* bytes of a buffer handed to the escaping
MaxBufferLen == 7
\* bytes of a frame handed to the scans
MaxScanLen == 6
\* the longest of the short frames
MaxFrameLen == 5

(***************************************************************************)
(* Threads: the console task calls the facade and the status functions,    *)
(* the media pipeline calls the frame hook once per outgoing frame         *)
(***************************************************************************)
Threads == {"cli", "media"}
NoThread == "none"

(***************************************************************************)
(* Buffers                                                                 *)
(***************************************************************************)
At(buf, i) == buf[i + 1]

\* memcpy of buf[from .. from+n-1]
Slice(buf, from, n) == SubSeq(buf, from + 1, from + n)

Fill(byte, n) == [k \in 1..n |-> byte]

\* a pointer is NULL, designates a live allocated buffer, or dangles after
\* free()
NULL == [st |-> "null", buf |-> <<>>]
Ptr(buf) == [st |-> "live", buf |-> buf]
Freed == [st |-> "freed", buf |-> <<>>]

\* malloc: the k-th allocation of a step fails when k = failAt (0: none fails)
AllocOk(k, failAt) == k # failAt

\* the buffers that are allocated after allocs calls of malloc, of which the
\* failAt-th returned NULL, and frees calls of free
Allocated(allocs, frees, failAt) ==
  allocs - (IF failAt \in 1..allocs THEN 1 ELSE 0) - frees

(***************************************************************************)
(* NAL codec                                                               *)
(***************************************************************************)
\* the size field, were 255 itself written as one byte
RECURSIVE length_to_uint8_above(_)
length_to_uint8_above(length) ==
  IF length > 255 THEN <<255>> \o length_to_uint8_above(length - 255)
  ELSE <<length>>

RECURSIVE length_to_uint8(_)
length_to_uint8(length) ==
  IF length >= 255 THEN <<255>> \o length_to_uint8(length - 255)
  ELSE <<length>>

create_header(uuid, payload_length) ==
  <<0, 0, 0, 1>>
    \o <<NAL_UNIT_TYPE_SEI, SEI_TYPE_USER_DATA_UNREGISTERED>>
    \o length_to_uint8(payload_length + 16)
    \o uuid

\* the iteration, were every byte given an escape byte
EmulationStep_every_byte(input, output, i) == output \o <<3, At(input, i)>>

\* the iteration, were the byte 03 behind two zero bytes not escaped
EmulationStep_up_to_two(input, output, i) ==
  LET n == Len(output) IN
  IF n >= 2 /\ output[n - 1] = 0 /\ output[n] = 0 /\ At(input, i) \in {0, 1, 2}
  THEN output \o <<3, At(input, i)>>
  ELSE Append(output, At(input, i))

\* the iteration, were a third zero byte let through
EmulationStep_nonzero_only(input, output, i) ==
  LET n == Len(output) IN
  IF n >= 2 /\ output[n - 1] = 0 /\ output[n] = 0 /\ At(input, i) \in {1, 2, 3}
  THEN output \o <<3, At(input, i)>>
  ELSE Append(output, At(input, i))

\* one iteration of the escaping loop: input byte i is appended to output,
\* after an escape byte when output ends in 00 00 and the byte is 00..03
EmulationStep(input, output, i) ==
  LET n == Len(output) IN
  IF n >= 2 /\ output[n - 1] = 0 /\ output[n] = 0 /\ At(input, i) \in {0, 1, 2, 3}
  THEN output \o <<3, At(input, i)>>
  ELSE Append(output, At(input, i))

\* the loop "for (i = lo; i < hi; i++)", its iterations taken in order
RECURSIVE EmulationLoop(_, _, _, _)
EmulationLoop(input, output, lo, hi) ==
  IF lo >= hi THEN output
  ELSE IF hi - lo = 1 THEN EmulationStep(input, output, lo)
  ELSE LET mid == lo + ((hi - lo) \div 2)
           left == EmulationLoop(input, output, lo, mid)
       IN  \* the test holds always; it has the first half computed first
           IF Len(left) >= 0 THEN EmulationLoop(input, left, mid, hi) ELSE left

do_emulation_prevention(input) ==
  LET input_size == Len(input)
      start_bytes == IF input_size >= 4 THEN 4 ELSE input_size
      start == Slice(input, 0, start_bytes)
  IN  IF input_size <= 4 THEN start
      ELSE EmulationLoop(input, start, 4, input_size)

\* "uint8_t temp_buffer[SEI_MAX_PAYLOAD_SIZE + 100]" and
\* "uint8_t sei_unit[SEI_MAX_PAYLOAD_SIZE + 100]"
SEI_UNIT_BUFFER_SIZE == SEI_MAX_PAYLOAD_SIZE + 100

\* temp_buffer of create_sei_nal_unit: header, payload, termination byte
sei_temp_buffer(uuid, payload) ==
  create_header(uuid, Len(payload)) \o payload \o <<SEI_PAYLOAD_TERMINATION>>

create_sei_nal_unit(uuid, payload) ==
  do_emulation_prevention(sei_temp_buffer(uuid, payload))

(***************************************************************************)
(* Bitstream scan                                                          *)
(***************************************************************************)
StartCode3(frame, i) == At(frame, i) = 0 /\ At(frame, i + 1) = 0 /\ At(frame, i + 2) = 1

StartCode4(frame, i) ==
  At(frame, i) = 0 /\ At(frame, i + 1) = 0 /\ At(frame, i + 2) = 0 /\ At(frame, i + 3) = 1

NalType(byte) == byte % 32

IsSliceType(nal_unit_type) == nal_unit_type >= 1 /\ nal_unit_type <= 5

\* the keyframe test, were a start code enough, its header byte unread
is_keyframe_header_unread(frame) ==
  \E i \in 0..(Len(frame) - 3) : StartCode3(frame, i)

\* the keyframe test, were a non-IDR slice (type 1) taken for a keyframe too
is_keyframe_any_slice(frame) ==
  LET frame_size == Len(frame) IN
  /\ frame_size >= 4
  /\ \E i \in 0..(frame_size - 5) :
       /\ At(frame, i) = 0
       /\ StartCode4(frame, i) \/ StartCode3(frame, i)
       /\ LET nal_start == IF At(frame, i + 2) = 1 THEN i + 3 ELSE i + 4 IN
          /\ nal_start < frame_size
          /\ NalType(At(frame, nal_start)) \in {1, 5, 7, 8}

\* the keyframe test of sei_publisher_process_frame: a start code at some
\* i < frame_size - 4 whose header byte has type IDR, SPS or PPS
is_keyframe(frame) ==
  LET frame_size == Len(frame) IN
  /\ frame_size >= 4
  /\ \E i \in 0..(frame_size - 5) :
       /\ At(frame, i) = 0
       /\ StartCode4(frame, i) \/ StartCode3(frame, i)
       /\ LET nal_start == IF At(frame, i + 2) = 1 THEN i + 3 ELSE i + 4 IN
          /\ nal_start < frame_size
          /\ NalType(At(frame, nal_start)) \in {5, 7, 8}

Minimum(S) == CHOOSE m \in S : \A o \in S : m <= o

\* the indices i < frame_size - 4 at which one of the two branches of the
\* scan loop is taken
ScanHits(frame) ==
  LET frame_size == Len(frame) IN
  {i \in 0..(frame_size - 5) :
     /\ At(frame, i) = 0
     /\ StartCode3(frame, i) \/ (i < frame_size - 5 /\ StartCode4(frame, i))}

\* the scan loop from index i on: it steps by one up to the next hit, there
\* returns on a slice type and else skips the start code and header
RECURSIVE ScanFrom(_, _, _)
ScanFrom(frame, hits, i) ==
  LET later == {h \in hits : h >= i} IN
  IF later = {} THEN -1
  ELSE LET j == Minimum(later) IN
       IF StartCode3(frame, j)
       THEN IF IsSliceType(NalType(At(frame, j + 3))) THEN j
            ELSE ScanFrom(frame, hits, j + 3 + 1)
       ELSE IF IsSliceType(NalType(At(frame, j + 4))) THEN j
            ELSE ScanFrom(frame, hits, j + 4 + 1)

\* a frame shorter than 4 bytes makes the unsigned bound frame_size - 4 wrap
\* and the loop read outside the frame
ScanOutOfBounds == -2

\* the scan, were it to return at the first start code whatever the type
find_insert_position_first_nal(frame) ==
  IF Len(frame) < 4 THEN ScanOutOfBounds
  ELSE IF ScanHits(frame) = {} THEN -1
  ELSE Minimum(ScanHits(frame))

find_insert_position(frame) ==
  IF Len(frame) < 4 THEN ScanOutOfBounds
  ELSE ScanFrom(frame, ScanHits(frame), 0)

\* the buffer insert_sei_unit builds once its allocation has succeeded
insert_sei_unit(frame, sei_unit) ==
  LET insert_position == find_insert_position(frame)
      frame_size == Len(frame)
  IN  IF insert_position >= 0
      THEN Slice(frame, 0, insert_position) \o sei_unit
             \o Slice(frame, insert_position, frame_size - insert_position)
      ELSE sei_unit \o frame

(***************************************************************************)
(* Publisher: the queue operations, as run with the publisher mutex held   *)
(***************************************************************************)
EmptyMessage == [payload |-> NULL, payload_size |-> 0, repeat_count |-> 0, timestamp |-> 0]

\* sei_publisher_init: calloc'ed structure, indices and count zero
sei_publisher_init ==
  [message_queue |-> [k \in 0..(SEI_MAX_QUEUE_SIZE - 1) |-> EmptyMessage],
   queue_head |-> 0, queue_tail |-> 0, queue_count |-> 0, mutex |-> NoThread]

\* the full queue, were nothing evicted
evict_oldest_never(pub) == pub

\* the eviction, were the head index left where it is
evict_oldest_stale_head(pub) ==
  IF pub.queue_count >= SEI_MAX_QUEUE_SIZE
  THEN [pub EXCEPT !.message_queue[pub.queue_head].payload =
                       IF @ # NULL THEN Freed ELSE @,
                   !.queue_count = @ - 1]
  ELSE pub

\* "if queue is full": free the oldest payload (the slot keeps the dangling
\* pointer) and advance the head
evict_oldest(pub) ==
  IF pub.queue_count >= SEI_MAX_QUEUE_SIZE
  THEN [pub EXCEPT !.message_queue[pub.queue_head].payload =
                       IF @ # NULL THEN Freed ELSE @,
                   !.queue_head = (@ + 1) % SEI_MAX_QUEUE_SIZE,
                   !.queue_count = @ - 1]
  ELSE pub

\* the store, were the repeat count kept as it was given
store_message_as_given(pub, json_str, repeat_count, now) ==
  [pub EXCEPT !.message_queue[pub.queue_tail] =
                 [payload |-> Ptr(json_str), payload_size |-> Len(json_str),
                  repeat_count |-> repeat_count, timestamp |-> now],
              !.queue_tail = (@ + 1) % SEI_MAX_QUEUE_SIZE,
              !.queue_count = @ + 1]

\* the message stored at the tail and the advance of the tail
store_message(pub, json_str, repeat_count, now) ==
  [pub EXCEPT !.message_queue[pub.queue_tail] =
                  [payload |-> Ptr(json_str),
                   payload_size |-> Len(json_str),
                   repeat_count |-> IF repeat_count > 0 THEN repeat_count
                                    ELSE SEI_DEFAULT_REPEAT_COUNT,
                   timestamp |-> now],
              !.queue_tail = (@ + 1) % SEI_MAX_QUEUE_SIZE,
              !.queue_count = @ + 1]

\* sei_publisher_publish_json between xSemaphoreTake and xSemaphoreGive
publish_json_locked(pub, json_str, repeat_count, now, failAt) ==
  LET evicted == evict_oldest(pub) IN
  IF ~AllocOk(1, failAt)
  THEN [pub |-> [evicted EXCEPT !.message_queue[evicted.queue_tail].payload = NULL],
        ok |-> FALSE]
  ELSE [pub |-> store_message(evicted, json_str, repeat_count, now), ok |-> TRUE]

\* the release of the head, were its payload not freed
release_head_no_free(pub) ==
  [pub EXCEPT !.queue_head = (@ + 1) % SEI_MAX_QUEUE_SIZE,
              !.queue_count = @ - 1]

\* free the head's payload, clear the pointer, advance the head
release_head(pub) ==
  [pub EXCEPT !.message_queue[pub.queue_head].payload = NULL,
              !.queue_head = (@ + 1) % SEI_MAX_QUEUE_SIZE,
              !.queue_count = @ - 1]

RECURSIVE clear_loop(_)
clear_loop(pub) ==
  IF pub.queue_count > 0 THEN clear_loop(release_head(pub)) ELSE pub

\* the clear, were the indices left where the loop ends
clear_queue_locked_no_reset(pub) == clear_loop(pub)

\* sei_publisher_clear_queue between xSemaphoreTake and xSemaphoreGive
clear_queue_locked(pub) ==
  [clear_loop(pub) EXCEPT !.queue_head = 0, !.queue_tail = 0]

(***************************************************************************)
(* Frame injector                                                          *)
(***************************************************************************)
\* the repeat loop, were it to stop after one splice
RECURSIVE insert_repeats_once(_, _, _, _, _, _, _)
insert_repeats_once(current_data, sei_unit, i, repeat_count, allocs, frees, failAt) ==
  IF ~(i < 1) THEN [data |-> current_data, allocs |-> allocs, frees |-> frees]
  ELSE IF ~AllocOk(allocs + 1, failAt)
       THEN [data |-> current_data, allocs |-> allocs + 1, frees |-> frees]
  ELSE LET new_data == insert_sei_unit(current_data, sei_unit) IN
       IF Len(new_data) >= 0
       THEN insert_repeats_once(new_data, sei_unit, i + 1, repeat_count, allocs + 1,
                                frees + 1, failAt)
       ELSE [data |-> new_data, allocs |-> allocs + 1, frees |-> frees]

\* the repeat loop, were the buffer it replaces not freed
RECURSIVE insert_repeats_no_free(_, _, _, _, _, _, _)
insert_repeats_no_free(current_data, sei_unit, i, repeat_count, allocs, frees, failAt) ==
  IF ~(i < repeat_count) THEN [data |-> current_data, allocs |-> allocs, frees |-> frees]
  ELSE IF ~AllocOk(allocs + 1, failAt)
       THEN [data |-> current_data, allocs |-> allocs + 1, frees |-> frees]
  ELSE LET new_data == insert_sei_unit(current_data, sei_unit) IN
       IF Len(new_data) >= 0
       THEN insert_repeats_no_free(new_data, sei_unit, i + 1, repeat_count, allocs + 1,
                                   frees, failAt)
       ELSE [data |-> new_data, allocs |-> allocs + 1, frees |-> frees]

\* the repeat loop of one message: splice until repeat_count is reached or
\* an allocation fails (break); allocs counts the allocations of the call,
\* frees the buffers it has freed ("free(current_data)" after each splice)
RECURSIVE insert_repeats(_, _, _, _, _, _, _)
insert_repeats(current_data, sei_unit, i, repeat_count, allocs, frees, failAt) ==
  IF ~(i < repeat_count) THEN [data |-> current_data, allocs |-> allocs, frees |-> frees]
  ELSE IF ~AllocOk(allocs + 1, failAt)
       THEN [data |-> current_data, allocs |-> allocs + 1, frees |-> frees]
  ELSE LET new_data == insert_sei_unit(current_data, sei_unit) IN
       \* the test holds always; it has the splice computed first
       IF Len(new_data) >= 0
       THEN insert_repeats(new_data, sei_unit, i + 1, repeat_count, allocs + 1,
                           frees + 1, failAt)
       ELSE [data |-> new_data, allocs |-> allocs + 1, frees |-> frees]

\* the drain loop, were it to take the newest message first
RECURSIVE drain_queue_newest_first(_, _, _, _, _)
drain_queue_newest_first(pub, current_data, allocs, frees, failAt) ==
  IF ~(pub.queue_count > 0)
  THEN [pub |-> pub, data |-> current_data, allocs |-> allocs, frees |-> frees]
  ELSE LET newest == (pub.queue_head + pub.queue_count - 1) % SEI_MAX_QUEUE_SIZE
           msg == pub.message_queue[newest]
           sei_unit == create_sei_nal_unit(SEND_SEI_UUID,
                                           Slice(msg.payload.buf, 0, msg.payload_size))
           spliced == insert_repeats(current_data, sei_unit, 0, msg.repeat_count,
                                     allocs, frees, failAt)
           released == [pub EXCEPT !.message_queue[newest].payload = NULL,
                                   !.queue_count = @ - 1]
       IN  IF Len(spliced.data) >= 0
           THEN drain_queue_newest_first(released, spliced.data, spliced.allocs,
                                         spliced.frees, failAt)
           ELSE [pub |-> pub, data |-> spliced.data, allocs |-> spliced.allocs,
                 frees |-> spliced.frees]

\* "while (publisher->queue_count > 0)": encode the head message once,
\* splice it repeat_count times, release it
RECURSIVE drain_queue(_, _, _, _, _)
drain_queue(pub, current_data, allocs, frees, failAt) ==
  IF ~(pub.queue_count > 0)
  THEN [pub |-> pub, data |-> current_data, allocs |-> allocs, frees |-> frees]
  ELSE LET msg == pub.message_queue[pub.queue_head]
           sei_unit == create_sei_nal_unit(SEND_SEI_UUID,
                                           Slice(msg.payload.buf, 0, msg.payload_size))
           spliced == insert_repeats(current_data, sei_unit, 0, msg.repeat_count,
                                     allocs, frees, failAt)
       IN  IF Len(spliced.data) >= 0
           THEN drain_queue(release_head(pub), spliced.data, spliced.allocs,
                            spliced.frees, failAt)
           ELSE [pub |-> pub, data |-> spliced.data, allocs |-> spliced.allocs,
                 frees |-> spliced.frees]

\* what the caller of process_frame passes in: output pointer NULL, size 0
NoOutput == [data |-> NULL, size |-> 0]

\* the copy, were its last byte left out
copy_frame_short(frame, failAt) ==
  [data |-> IF AllocOk(1, failAt) THEN Ptr(Slice(frame, 0, Len(frame) - 1)) ELSE NULL,
   size |-> Len(frame)]

\* "*output_size = frame_size; *output_data = malloc(frame_size); memcpy"
copy_frame(frame, failAt) ==
  [data |-> IF AllocOk(1, failAt) THEN Ptr(frame) ELSE NULL, size |-> Len(frame)]

\* the timeout, were it reported as a failure without an output
process_frame_timeout_fails(frame, failAt) ==
  [ok |-> FALSE, out |-> NoOutput, live |-> 0]

\* sei_publisher_process_frame when the mutex was not acquired in time
process_frame_timeout(frame, failAt) ==
  LET out == copy_frame(frame, failAt) IN
  [ok |-> out.data # NULL, out |-> out, live |-> Allocated(1, 0, failAt)]

\* sei_publisher_process_frame between xSemaphoreTake and xSemaphoreGive;
\* live counts the buffers the call has allocated and not freed
process_frame_locked(pub, frame, failAt) ==
  IF pub.queue_count = 0 \/ ~is_keyframe(frame)
  THEN LET out == copy_frame(frame, failAt) IN
       [pub |-> pub, ok |-> out.data # NULL, out |-> out, allocs |-> 1,
        live |-> Allocated(1, 0, failAt)]
  ELSE IF ~AllocOk(1, failAt)
       THEN [pub |-> pub, ok |-> FALSE, out |-> NoOutput, allocs |-> 1,
             live |-> Allocated(1, 0, failAt)]
  ELSE LET drained == drain_queue(pub, frame, 1, 0, failAt) IN
       [pub |-> drained.pub, ok |-> TRUE,
        out |-> [data |-> Ptr(drained.data), size |-> Len(drained.data)],
        allocs |-> drained.allocs,
        live |-> Allocated(drained.allocs, drained.frees, failAt)]

(***************************************************************************)
(* Video frame hook                                                        *)
(***************************************************************************)
\* video_sei_hook_init on the zeroed g_hook
video_sei_hook_init ==
  [initialized |-> TRUE, custom_processor |-> "default_sei_processor",
   mutex |-> NoThread,
   frames_processed |-> 0, sei_units_inserted |-> 0, total_sei_bytes |-> 0]

\* the statistics update, were frames counted only when their size grew
update_statistics_grown_only(hook, result, original_size, output_size) ==
  IF result /\ output_size > original_size
  THEN [hook EXCEPT !.frames_processed = @ + 1,
                    !.total_sei_bytes = @ + (output_size - original_size),
                    !.sei_units_inserted = @ + 1]
  ELSE hook

\* the statistics update, were the bytes of the last frame kept instead of
\* added
update_statistics_last_only(hook, result, original_size, output_size) ==
  IF ~result THEN hook
  ELSE IF output_size > original_size
       THEN [hook EXCEPT !.frames_processed = @ + 1,
                         !.total_sei_bytes = output_size - original_size,
                         !.sei_units_inserted = @ + 1]
       ELSE [hook EXCEPT !.frames_processed = @ + 1]

\* the statistics update that follows the processor call
update_statistics(hook, result, original_size, output_size) ==
  IF ~result THEN hook
  ELSE IF output_size > original_size
       THEN [hook EXCEPT !.frames_processed = @ + 1,
                         !.total_sei_bytes = @ + (output_size - original_size),
                         !.sei_units_inserted = @ + 1]
       ELSE [hook EXCEPT !.frames_processed = @ + 1]

\* the copy made when the hook mutex is not acquired in time, and by
\* default_sei_processor without a publisher: the size is written on success
hook_copy_frame(frame, failAt) ==
  IF AllocOk(1, failAt)
  THEN [ok |-> TRUE, out |-> [data |-> Ptr(frame), size |-> Len(frame)], live |-> 1]
  ELSE [ok |-> FALSE, out |-> NoOutput, live |-> 0]

(***************************************************************************)
(* Facade: payload formatting                                              *)
(***************************************************************************)
RECURSIVE DecimalDigits(_)
DecimalDigits(n) ==
  IF n < 10 THEN <<48 + n>> ELSE Append(DecimalDigits(n \div 10), 48 + (n % 10))

\* "%d"
FormatInt(value) ==
  IF value < 0 THEN <<45>> \o DecimalDigits(0 - value) ELSE DecimalDigits(value)

\* snprintf(buffer, size, ...) of the formatted text: at most size - 1
\* characters are stored, the full length is returned
snprintf(size, formatted) ==
  [len |-> Len(formatted),
   buffer |-> Slice(formatted, 0, IF Len(formatted) < size THEN Len(formatted) ELSE size - 1)]

\* {"text":"%s","timestamp":%u,"type":"text_content"}
text_format(text, timestamp) ==
  <<123, 34, 116, 101, 120, 116, 34, 58, 34>> \o text
    \o <<34, 44, 34, 116, 105, 109, 101, 115, 116, 97, 109, 112, 34, 58>>
    \o DecimalDigits(timestamp)
    \o <<44, 34, 116, 121, 112, 101, 34, 58, 34, 116, 101, 120, 116, 95, 99,
         111, 110, 116, 101, 110, 116, 34, 125>>

\* {"role":"%s","content":"%s","timestamp":%u,"type":"chat_message"}
json_format(role, content, timestamp) ==
  <<123, 34, 114, 111, 108, 101, 34, 58, 34>> \o role
    \o <<34, 44, 34, 99, 111, 110, 116, 101, 110, 116, 34, 58, 34>> \o content
    \o <<34, 44, 34, 116, 105, 109, 101, 115, 116, 97, 109, 112, 34, 58>>
    \o DecimalDigits(timestamp)
    \o <<44, 34, 116, 121, 112, 101, 34, 58, 34, 99, 104, 97, 116, 95, 109,
         101, 115, 115, 97, 103, 101, 34, 125>>

\* {"status":"%s","value":%d,"timestamp":%u,"type":"status_update"}
status_format(status, value, timestamp) ==
  <<123, 34, 115, 116, 97, 116, 117, 115, 34, 58, 34>> \o status
    \o <<34, 44, 34, 118, 97, 108, 117, 101, 34, 58>> \o FormatInt(value)
    \o <<44, 34, 116, 105, 109, 101, 115, 116, 97, 109, 112, 34, 58>>
    \o DecimalDigits(timestamp)
    \o <<44, 34, 116, 121, 112, 101, 34, 58, 34, 115, 116, 97, 116, 117, 115,
         95, 117, 112, 100, 97, 116, 101, 34, 125>>

(***************************************************************************)
(* Inputs                                                                  *)
(***************************************************************************)
\* the test frame of sei_test_hook_cli: SPS, PPS, IDR slice, slice data
FakeFrame ==
  <<0, 0, 0, 1, 103, 66, 0, 30,
    0, 0, 0, 1, 104, 206, 60, 128,
    0, 0, 0, 1, 101, 136, 132, 0,
    255, 255, 255, 255>>

\* a non-IDR slice (type 1) alone: not a keyframe
PFrame == <<0, 0, 0, 1, 65, 154, 36, 108>>

\* SPS and PPS without a slice
ParamFrame == <<0, 0, 0, 1, 103, 66, 0, 30, 0, 0, 0, 1, 104, 206, 60, 128>>

\* SPS and IDR slice behind 3-byte start codes
ShortCodeFrame == <<0, 0, 1, 103, 66, 0, 0, 1, 101, 136, 132>>

\* the encoder's access units: every NAL unit has a header and payload bytes
Frames == {FakeFrame, PFrame, ShortCodeFrame}

\* a text whose formatted message has SEI_MAX_PAYLOAD_SIZE + 1 characters
Texts == {Fill(97, 351)}
Roles == {<<117, 115, 101, 114>>}
\* "hello"
Contents == {<<104, 101, 108, 108, 111>>}
\* "temp"
StatusNames == {<<116, 101, 109, 112>>}
StatusValues == {-5}
\* strings of SEI_MAX_PAYLOAD_SIZE characters and of one more
RawJsons == {Fill(98, SEI_MAX_PAYLOAD_SIZE), Fill(98, SEI_MAX_PAYLOAD_SIZE + 1)}
\* esp_timer_get_time() / 1000
Times == {1234}

\* message k of a run of distinct short messages: "100", "101", ...
QueueJson(k) == DecimalDigits(100 + k)
QueueTime(k) == 1000 + k
QueueFrames == {ParamFrame, ShortCodeFrame}
\* the head index at which the resident messages of SpecQueue start
PrefillHeads == {0, 9}
\* the number of the first message enqueued in a behaviour of SpecQueue,
\* beyond the number of any resident message
FirstSend == 2 * SEI_MAX_QUEUE_SIZE + 10

(***************************************************************************)
(* State                                                                   *)
(***************************************************************************)
VARIABLES
  g_sei_publisher,  \* sei.c: TRUE when the handle is not NULL
  publisher,        \* the sei_publisher_t behind the handle
  g_hook,           \* video_sei_hook.c: the hook singleton
  pc,               \* where each thread stands
  call,             \* the arguments of the call a thread is in
  ret,              \* what the finished call returned
  sends, frames, clears,  \* calls made so far
  failures          \* allocations that have failed so far

vars == <<g_sei_publisher, publisher, g_hook, pc, call, ret, sends, frames, clears,
          failures>>

NoCall == [op |-> "none", json_len |-> 0, json_str |-> <<>>, repeat_count |-> 0,
           now |-> 0, frame |-> <<>>]
\* path names the return statement taken, live counts the buffers the call
\* has allocated and not freed
NoRet ==
  [ok |-> FALSE, path |-> "refused", value |-> 0, out |-> NoOutput, stats |-> <<>>,
   live |-> 0]

\* app_main: sei_init() && video_sei_hook_init() have succeeded
Init ==
  /\ g_sei_publisher = TRUE
  /\ publisher = sei_publisher_init
  /\ g_hook = video_sei_hook_init
  /\ pc = [t \in Threads |-> "idle"]
  /\ call = [t \in Threads |-> NoCall]
  /\ ret = [t \in Threads |-> NoRet]
  /\ sends = 0
  /\ frames = 0
  /\ clears = 0
  /\ failures = 0

\* the step makes n allocations of which the failAt-th fails (0: none)
Allocates(n, failAt) ==
  /\ failAt <= n
  /\ failAt > 0 => failures < MaxFailures
  /\ failures' = failures + (IF failAt > 0 THEN 1 ELSE 0)

\* thread t goes on inside the call c, at label
Enter(t, c, label) ==
  /\ pc' = [pc EXCEPT ![t] = label]
  /\ call' = [call EXCEPT ![t] = c]
  /\ ret' = ret

\* the call c of thread t returns r
Finish(t, c, r) ==
  /\ pc' = [pc EXCEPT ![t] = "done"]
  /\ call' = [call EXCEPT ![t] = c]
  /\ ret' = [ret EXCEPT ![t] = r]

\* the caller takes the result and is ready for its next call
Return(t) ==
  /\ pc[t] = "done"
  /\ pc' = [pc EXCEPT ![t] = "idle"]
  /\ call' = [call EXCEPT ![t] = NoCall]
  /\ ret' = [ret EXCEPT ![t] = NoRet]
  /\ UNCHANGED <<g_sei_publisher, publisher, g_hook, sends, frames, clears, failures>>

(***************************************************************************)
(* Enqueue                                                                 *)
(***************************************************************************)
\* the size check, were it to refuse SEI_MAX_PAYLOAD_SIZE bytes too
payload_too_large_or_equal(json_len) == json_len >= SEI_MAX_PAYLOAD_SIZE

\* "if (json_len > SEI_MAX_PAYLOAD_SIZE)"
payload_too_large(json_len) == json_len > SEI_MAX_PAYLOAD_SIZE

\* the enqueue, were it to go on without the mutex when the wait runs out
publish_json_take_unlocked(t, c, repeat_count) ==
  LET c2 == [c EXCEPT !.repeat_count = repeat_count] IN
  IF payload_too_large(Len(c.json_str))
  THEN Finish(t, c2, [NoRet EXCEPT !.path = "too_large"]) /\ publisher' = publisher
  ELSE Enter(t, c2, "publish_json_locked")
         /\ publisher' = IF publisher.mutex # NoThread THEN publisher
                         ELSE [publisher EXCEPT !.mutex = t]

\* sei_publisher_publish_json up to xSemaphoreTake(mutex, 100 ms): an
\* oversize string is refused, a mutex held by another thread times out
publish_json_take(t, c, repeat_count) ==
  LET c2 == [c EXCEPT !.repeat_count = repeat_count] IN
  IF payload_too_large(Len(c.json_str))
  THEN Finish(t, c2, [NoRet EXCEPT !.path = "too_large"]) /\ publisher' = publisher
  ELSE IF publisher.mutex # NoThread
       THEN Finish(t, c2, [NoRet EXCEPT !.path = "timeout"]) /\ publisher' = publisher
  ELSE Enter(t, c2, "publish_json_locked") /\ publisher' = [publisher EXCEPT !.mutex = t]

\* a facade call, were the handle not tested
facade_publish_unchecked(t, op, formatted, now) ==
  LET c == [NoCall EXCEPT !.op = op, !.json_len = formatted.len,
                          !.json_str = formatted.buffer, !.now = now]
  IN  /\ pc[t] = "idle"
      /\ sends' = IF payload_too_large(Len(c.json_str)) THEN sends ELSE sends + 1
      /\ publish_json_take(t, c, SEI_DEFAULT_REPEAT_COUNT)
      /\ UNCHANGED <<g_sei_publisher, g_hook, frames, clears, failures>>

\* a facade call: refused without a publisher; json_len is the length of the
\* formatted message, json_str the string handed to the publisher
facade_publish(t, op, formatted, now) ==
  LET c == [NoCall EXCEPT !.op = op, !.json_len = formatted.len,
                          !.json_str = formatted.buffer, !.now = now]
  IN  /\ pc[t] = "idle"
      /\ sends' = IF payload_too_large(Len(c.json_str)) THEN sends ELSE sends + 1
      /\ IF ~g_sei_publisher
         THEN Finish(t, c, NoRet) /\ publisher' = publisher
         ELSE publish_json_take(t, c, SEI_DEFAULT_REPEAT_COUNT)
      /\ UNCHANGED <<g_sei_publisher, g_hook, frames, clears, failures>>

\* sei_send_text -> sei_publisher_publish_text: the message is formatted into
\* a buffer of SEI_MAX_PAYLOAD_SIZE bytes and the buffer is published
sei_send_text(t, text, now) ==
  facade_publish(t, "sei_send_text",
                 snprintf(SEI_MAX_PAYLOAD_SIZE, text_format(text, now)), now)

sei_send_json(t, role, content, now) ==
  facade_publish(t, "sei_send_json",
                 snprintf(SEI_MAX_PAYLOAD_SIZE, json_format(role, content, now)), now)

sei_send_status(t, status, value, now) ==
  facade_publish(t, "sei_send_status",
                 snprintf(SEI_MAX_PAYLOAD_SIZE, status_format(status, value, now)), now)

\* sei_send_raw_json: the string is published as it is
sei_send_raw_json(t, json_data, now) ==
  facade_publish(t, "sei_send_raw_json",
                 [len |-> Len(json_data), buffer |-> json_data], now)

\* sei_publisher_publish_json called on the handle of sei_get_publisher()
sei_publisher_publish_json(t, json_str, repeat_count, now) ==
  LET c == [NoCall EXCEPT !.op = "sei_publisher_publish_json",
                          !.json_len = Len(json_str), !.json_str = json_str,
                          !.now = now]
  IN  /\ pc[t] = "idle"
      /\ g_sei_publisher
      /\ sends' = sends + 1
      /\ publish_json_take(t, c, repeat_count)
      /\ UNCHANGED <<g_sei_publisher, g_hook, frames, clears, failures>>

\* the critical section of sei_publisher_publish_json and its return
publish_json_give(t, failAt) ==
  /\ pc[t] = "publish_json_locked"
  /\ \E r \in {publish_json_locked(publisher, call[t].json_str,
                                    call[t].repeat_count, call[t].now, failAt)} :
         /\ publisher' = [r.pub EXCEPT !.mutex = NoThread]
         /\ Finish(t, call[t], [NoRet EXCEPT !.ok = r.ok, !.path = "locked"])
  /\ Allocates(1, failAt)
  /\ UNCHANGED <<g_sei_publisher, g_hook, sends, frames, clears>>

(***************************************************************************)
(* Clear and queue size                                                    *)
(***************************************************************************)
\* sei_clear_queue -> sei_publisher_clear_queue up to xSemaphoreTake(100 ms)
sei_clear_queue(t) ==
  LET c == [NoCall EXCEPT !.op = "sei_clear_queue"] IN
  /\ pc[t] = "idle"
  /\ clears' = clears + 1
  /\ IF ~g_sei_publisher
     THEN Finish(t, c, NoRet) /\ publisher' = publisher
     ELSE IF publisher.mutex # NoThread
          THEN Finish(t, c, [NoRet EXCEPT !.path = "timeout"]) /\ publisher' = publisher
     ELSE Enter(t, c, "clear_queue_locked") /\ publisher' = [publisher EXCEPT !.mutex = t]
  /\ UNCHANGED <<g_sei_publisher, g_hook, sends, frames, failures>>

clear_queue_give(t) ==
  /\ pc[t] = "clear_queue_locked"
  /\ publisher' = [clear_queue_locked(publisher) EXCEPT !.mutex = NoThread]
  /\ Finish(t, call[t], [NoRet EXCEPT !.ok = TRUE, !.path = "locked"])
  /\ UNCHANGED <<g_sei_publisher, g_hook, sends, frames, clears, failures>>

\* sei_get_queue_status -> sei_publisher_get_queue_size up to
\* xSemaphoreTake(10 ms): -1 without a publisher or on timeout
sei_get_queue_status(t) ==
  LET c == [NoCall EXCEPT !.op = "sei_get_queue_status"] IN
  /\ pc[t] = "idle"
  /\ IF ~g_sei_publisher
     THEN Finish(t, c, [NoRet EXCEPT !.value = -1]) /\ publisher' = publisher
     ELSE IF publisher.mutex # NoThread
          THEN Finish(t, c, [NoRet EXCEPT !.path = "timeout", !.value = -1])
               /\ publisher' = publisher
     ELSE Enter(t, c, "get_queue_size_locked") /\ publisher' = [publisher EXCEPT !.mutex = t]
  /\ UNCHANGED <<g_sei_publisher, g_hook, sends, frames, clears, failures>>

get_queue_size_give(t) ==
  /\ pc[t] = "get_queue_size_locked"
  /\ publisher' = [publisher EXCEPT !.mutex = NoThread]
  /\ Finish(t, call[t], [NoRet EXCEPT !.ok = TRUE, !.path = "locked",
                                      !.value = publisher.queue_count])
  /\ UNCHANGED <<g_sei_publisher, g_hook, sends, frames, clears, failures>>

(***************************************************************************)
(* Statistics                                                              *)
(***************************************************************************)
\* video_sei_hook_get_stats up to xSemaphoreTake(100 ms)
video_sei_hook_get_stats(t) ==
  LET c == [NoCall EXCEPT !.op = "video_sei_hook_get_stats"] IN
  /\ pc[t] = "idle"
  /\ IF ~g_hook.initialized
     THEN Finish(t, c, [NoRet EXCEPT !.stats = <<0, 0, 0>>]) /\ g_hook' = g_hook
     ELSE IF g_hook.mutex # NoThread
          THEN Finish(t, c, [NoRet EXCEPT !.path = "timeout"]) /\ g_hook' = g_hook
     ELSE Enter(t, c, "get_stats_locked") /\ g_hook' = [g_hook EXCEPT !.mutex = t]
  /\ UNCHANGED <<g_sei_publisher, publisher, sends, frames, clears, failures>>

get_stats_give(t) ==
  /\ pc[t] = "get_stats_locked"
  /\ g_hook' = [g_hook EXCEPT !.mutex = NoThread]
  /\ Finish(t, call[t],
            [NoRet EXCEPT !.ok = TRUE, !.path = "locked",
                          !.stats = <<g_hook.frames_processed, g_hook.sei_units_inserted,
                                      g_hook.total_sei_bytes>>])
  /\ UNCHANGED <<g_sei_publisher, publisher, sends, frames, clears, failures>>

(***************************************************************************)
(* Frame processing                                                        *)
(***************************************************************************)
\* video_sei_hook_process_frame up to xSemaphoreTake(g_hook.mutex, 10 ms)
video_sei_hook_process_frame(t, frame, failAt) ==
  LET c == [NoCall EXCEPT !.op = "video_sei_hook_process_frame", !.frame = frame] IN
  /\ pc[t] = "idle"
  /\ frames' = frames + 1
  /\ IF ~g_hook.initialized
     THEN Finish(t, c, NoRet) /\ g_hook' = g_hook /\ Allocates(0, failAt)
     ELSE IF g_hook.mutex # NoThread
          THEN LET r == hook_copy_frame(frame, failAt) IN
               /\ Finish(t, c, [NoRet EXCEPT !.ok = r.ok, !.path = "hook_timeout",
                                              !.out = r.out, !.live = r.live])
               /\ g_hook' = g_hook
               /\ Allocates(1, failAt)
     ELSE /\ Enter(t, c, "hook_locked")
          /\ g_hook' = [g_hook EXCEPT !.mutex = t]
          /\ Allocates(0, failAt)
  /\ UNCHANGED <<g_sei_publisher, publisher, sends, clears>>

\* the end of video_sei_hook_process_frame: statistics, xSemaphoreGive
hook_give(t, r, path) ==
  /\ g_hook' = [update_statistics(g_hook, r.ok, Len(call[t].frame), r.out.size)
                  EXCEPT !.mutex = NoThread]
  /\ Finish(t, call[t], [NoRet EXCEPT !.ok = r.ok, !.path = path, !.out = r.out,
                                      !.live = r.live])

\* the processor, were it to wait for the publisher's mutex without a limit
default_sei_processor_blocking(t, failAt) ==
  /\ pc[t] = "hook_locked"
  /\ g_sei_publisher /\ publisher.mutex = NoThread
  /\ Enter(t, call[t], "process_frame_locked")
  /\ publisher' = [publisher EXCEPT !.mutex = t]
  /\ g_hook' = g_hook
  /\ Allocates(0, failAt)
  /\ UNCHANGED <<g_sei_publisher, sends, frames, clears>>

\* the processor, were the hook to give its mutex before calling it
default_sei_processor_hook_released(t, failAt) ==
  /\ pc[t] = "hook_locked"
  /\ g_sei_publisher /\ publisher.mutex = NoThread
  /\ Enter(t, call[t], "process_frame_locked")
  /\ publisher' = [publisher EXCEPT !.mutex = t]
  /\ g_hook' = [g_hook EXCEPT !.mutex = NoThread]
  /\ Allocates(0, failAt)
  /\ UNCHANGED <<g_sei_publisher, sends, frames, clears>>

\* default_sei_processor -> sei_publisher_process_frame up to
\* xSemaphoreTake(publisher->mutex, 10 ms), with the hook mutex held
default_sei_processor(t, failAt) ==
  /\ pc[t] = "hook_locked"
  /\ IF ~g_sei_publisher
     THEN /\ hook_give(t, hook_copy_frame(call[t].frame, failAt), "no_publisher")
          /\ publisher' = publisher
          /\ Allocates(1, failAt)
     ELSE IF publisher.mutex # NoThread
          THEN /\ hook_give(t, process_frame_timeout(call[t].frame, failAt),
                            "publisher_timeout")
               /\ publisher' = publisher
               /\ Allocates(1, failAt)
     ELSE /\ Enter(t, call[t], "process_frame_locked")
          /\ publisher' = [publisher EXCEPT !.mutex = t]
          /\ g_hook' = g_hook
          /\ Allocates(0, failAt)
  /\ UNCHANGED <<g_sei_publisher, sends, frames, clears>>

\* the critical section of sei_publisher_process_frame, its return to the
\* hook and the end of video_sei_hook_process_frame
process_frame_give(t, failAt) ==
  /\ pc[t] = "process_frame_locked"
  /\ \E r \in {process_frame_locked(publisher, call[t].frame, failAt)} :
     /\ publisher' = [r.pub EXCEPT !.mutex = NoThread]
     /\ hook_give(t, r, "locked")
     /\ Allocates(r.allocs, failAt)
  /\ UNCHANGED <<g_sei_publisher, sends, frames, clears>>

(***************************************************************************)
(* Lifecycle                                                               *)
(***************************************************************************)
\* "static video_sei_hook_t g_hook = {0}", and what memset(&g_hook, 0) leaves
g_hook_zero ==
  [initialized |-> FALSE, custom_processor |-> "NULL", mutex |-> NoThread,
   frames_processed |-> 0, sei_units_inserted |-> 0, total_sei_bytes |-> 0]

\* sei_init, were it to build a publisher on every call
sei_init_always_builds(handle, pub, failAt) ==
  IF ~AllocOk(1, failAt)
  THEN [handle |-> FALSE, pub |-> pub, ok |-> FALSE, allocs |-> 1]
  ELSE [handle |-> TRUE, pub |-> sei_publisher_init, ok |-> TRUE, allocs |-> 1]

\* sei_init: true at once when the handle is set; false when the heap is
\* short or sei_publisher_init returns NULL; else the handle is set
sei_init_result(handle, pub, failAt) ==
  IF handle THEN [handle |-> TRUE, pub |-> pub, ok |-> TRUE, allocs |-> 0]
  ELSE IF ~AllocOk(1, failAt)
       THEN [handle |-> FALSE, pub |-> pub, ok |-> FALSE, allocs |-> 1]
  ELSE [handle |-> TRUE, pub |-> sei_publisher_init, ok |-> TRUE, allocs |-> 1]

sei_init(t, failAt) ==
  LET c == [NoCall EXCEPT !.op = "sei_init"]
      r == sei_init_result(g_sei_publisher, publisher, failAt)
  IN  /\ pc[t] = "idle"
      /\ g_sei_publisher' = r.handle
      /\ publisher' = r.pub
      /\ Finish(t, c, [NoRet EXCEPT !.ok = r.ok, !.path = "init"])
      /\ Allocates(r.allocs, failAt)
      /\ UNCHANGED <<g_hook, sends, frames, clears>>

\* the labels at which a thread holds the publisher mutex
PublisherSections ==
  {"publish_json_locked", "clear_queue_locked", "get_queue_size_locked",
   "process_frame_locked"}

\* sei_deinit -> sei_publisher_deinit -> sei_publisher_clear_queue up to
\* xSemaphoreTake(100 ms): on timeout clear_queue returns with the queue as
\* it is and sei_publisher_deinit goes on to delete the mutex
sei_deinit(t) ==
  LET c == [NoCall EXCEPT !.op = "sei_deinit"] IN
  /\ pc[t] = "idle"
  /\ IF ~g_sei_publisher
     THEN Finish(t, c, NoRet) /\ publisher' = publisher
     ELSE IF publisher.mutex # NoThread
          THEN Enter(t, c, "deinit_free") /\ publisher' = publisher
     ELSE Enter(t, c, "deinit_clear_locked") /\ publisher' = [publisher EXCEPT !.mutex = t]
  /\ UNCHANGED <<g_sei_publisher, g_hook, sends, frames, clears, failures>>

\* the critical section of sei_publisher_clear_queue within sei_publisher_deinit
deinit_clear_give(t) ==
  /\ pc[t] = "deinit_clear_locked"
  /\ publisher' = [clear_queue_locked(publisher) EXCEPT !.mutex = NoThread]
  /\ Enter(t, call[t], "deinit_free")
  /\ UNCHANGED <<g_sei_publisher, g_hook, sends, frames, clears, failures>>

\* "vSemaphoreDelete(publisher->mutex); free(publisher)" and, back in
\* sei_deinit, "g_sei_publisher = NULL": the payloads the queue still holds
\* stay allocated, and a thread inside a critical section of the publisher
\* goes on in freed memory
deinit_free(t) ==
  /\ pc[t] = "deinit_free"
  /\ g_sei_publisher' = FALSE
  /\ publisher' = [publisher EXCEPT !.mutex = NoThread]
  /\ pc' = [u \in Threads |->
              IF u = t THEN "done"
              ELSE IF pc[u] \in PublisherSections THEN "undefined" ELSE pc[u]]
  /\ call' = call
  /\ ret' = [ret EXCEPT ![t] = [NoRet EXCEPT !.ok = TRUE, !.path = "freed"]]
  /\ UNCHANGED <<g_hook, sends, frames, clears, failures>>

\* a thread whose publisher was freed under it: the call ends, if it ends,
\* with either result; a frame call ends with a copy or with nothing
undefined_behaviour(t, ok) ==
  /\ pc[t] = "undefined"
  /\ IF call[t].op = "video_sei_hook_process_frame"
     THEN hook_give(t, IF ok THEN hook_copy_frame(call[t].frame, 0)
                             ELSE [ok |-> FALSE, out |-> NoOutput, live |-> 0],
                    "undefined")
     ELSE /\ Finish(t, call[t], [NoRet EXCEPT !.ok = ok, !.path = "undefined"])
          /\ g_hook' = g_hook
  /\ UNCHANGED <<g_sei_publisher, publisher, sends, frames, clears, failures>>

\* video_sei_hook_init: true at once when initialized; else memset, the
\* mutex is created (false when that fails), the default processor is set
hook_init_result(hook, failAt) ==
  IF hook.initialized THEN [hook |-> hook, ok |-> TRUE, allocs |-> 0]
  ELSE IF ~AllocOk(1, failAt) THEN [hook |-> g_hook_zero, ok |-> FALSE, allocs |-> 1]
  ELSE [hook |-> video_sei_hook_init, ok |-> TRUE, allocs |-> 1]

hook_init(t, failAt) ==
  LET c == [NoCall EXCEPT !.op = "video_sei_hook_init"]
      r == hook_init_result(g_hook, failAt)
  IN  /\ pc[t] = "idle"
      /\ g_hook' = r.hook
      /\ Finish(t, c, [NoRet EXCEPT !.ok = r.ok, !.path = "init"])
      /\ Allocates(r.allocs, failAt)
      /\ UNCHANGED <<g_sei_publisher, publisher, sends, frames, clears>>

\* video_sei_hook_deinit: nothing when not initialized; else the mutex is
\* deleted and g_hook is zeroed, with no mutex taken
video_sei_hook_deinit(t) ==
  LET c == [NoCall EXCEPT !.op = "video_sei_hook_deinit"] IN
  /\ pc[t] = "idle"
  /\ g_hook' = IF ~g_hook.initialized THEN g_hook ELSE g_hook_zero
  /\ Finish(t, c, [NoRet EXCEPT !.ok = g_hook.initialized, !.path = "deinit"])
  /\ UNCHANGED <<g_sei_publisher, publisher, sends, frames, clears, failures>>

\* video_sei_hook_reset_stats up to xSemaphoreTake(100 ms)
video_sei_hook_reset_stats(t) ==
  LET c == [NoCall EXCEPT !.op = "video_sei_hook_reset_stats"] IN
  /\ pc[t] = "idle"
  /\ IF ~g_hook.initialized
     THEN Finish(t, c, NoRet) /\ g_hook' = g_hook
     ELSE IF g_hook.mutex # NoThread
          THEN Finish(t, c, [NoRet EXCEPT !.path = "timeout"]) /\ g_hook' = g_hook
     ELSE Enter(t, c, "reset_stats_locked") /\ g_hook' = [g_hook EXCEPT !.mutex = t]
  /\ UNCHANGED <<g_sei_publisher, publisher, sends, frames, clears, failures>>

reset_stats_give(t) ==
  /\ pc[t] = "reset_stats_locked"
  /\ g_hook' = [g_hook EXCEPT !.frames_processed = 0, !.sei_units_inserted = 0,
                              !.total_sei_bytes = 0, !.mutex = NoThread]
  /\ Finish(t, call[t], [NoRet EXCEPT !.ok = TRUE, !.path = "locked"])
  /\ UNCHANGED <<g_sei_publisher, publisher, sends, frames, clears, failures>>

(***************************************************************************)
(* Send callback                                                           *)
(***************************************************************************)
\* the callback, were it to take over whatever size the hook wrote and to
\* report a failure of the hook
callback_result_any_output(frame, r) ==
  IF r.out.size > 0
  THEN [status |-> IF r.ok THEN 0 ELSE -1, frame |-> r.out.data.buf]
  ELSE [status |-> 0, frame |-> frame]

\* the end of sei_video_send_callback: "frame->data = sei_output_data;
\* frame->size = sei_output_size" when the hook succeeded with an output,
\* and "return 0" on both paths
callback_result(frame, r) ==
  IF r.ok /\ r.out.data # NULL /\ r.out.size > 0
  THEN [status |-> 0, frame |-> r.out.data.buf]
  ELSE [status |-> 0, frame |-> frame]

\* sei_video_send_callback up to the call of the hook: an empty frame is
\* passed through at once
sei_video_send_callback(t, frame, failAt) ==
  IF Len(frame) = 0
  THEN /\ pc[t] = "idle"
       /\ frames' = frames + 1
       /\ pc' = [pc EXCEPT ![t] = "callback_done"]
       /\ call' = [call EXCEPT ![t] = [NoCall EXCEPT !.op = "sei_video_send_callback"]]
       /\ ret' = ret
       /\ Allocates(0, failAt)
       /\ UNCHANGED <<g_sei_publisher, publisher, g_hook, sends, clears>>
  ELSE video_sei_hook_process_frame(t, frame, failAt)

\* the hook has returned to the callback
callback_return(t) ==
  /\ pc[t] = "done"
  /\ call[t].op = "video_sei_hook_process_frame"
  /\ LET r == callback_result(call[t].frame, ret[t]) IN
     /\ pc' = [pc EXCEPT ![t] = "callback_done"]
     /\ call' = [call EXCEPT ![t].frame = r.frame]
     /\ ret' = [ret EXCEPT ![t].value = r.status]
  /\ UNCHANGED <<g_sei_publisher, publisher, g_hook, sends, frames, clears, failures>>

\* the pipeline sends the frame and is ready for the next one
callback_end(t) ==
  /\ pc[t] = "callback_done"
  /\ pc' = [pc EXCEPT ![t] = "idle"]
  /\ call' = [call EXCEPT ![t] = NoCall]
  /\ ret' = [ret EXCEPT ![t] = NoRet]
  /\ UNCHANGED <<g_sei_publisher, publisher, g_hook, sends, frames, clears, failures>>

(***************************************************************************)
(* Specifications                                                          *)
(***************************************************************************)
\* which allocation of a step fails: none, the first (the copy of the frame,
\* the payload) or the second (the first splice)
Failures == {0, 1, 2}

\* the facade driven with messages of every kind
Next ==
  \/ \E text \in Texts, now \in Times :
       sends < MaxSend /\ sei_send_text("cli", text, now)
  \/ \E role \in Roles, content \in Contents, now \in Times :
       sends < MaxSend /\ sei_send_json("cli", role, content, now)
  \/ \E status \in StatusNames, value \in StatusValues, now \in Times :
       sends < MaxSend /\ sei_send_status("cli", status, value, now)
  \/ \E json_data \in RawJsons, now \in Times :
       /\ sends < MaxSend \/ payload_too_large(Len(json_data))
       /\ sei_send_raw_json("cli", json_data, now)
  \/ \E failAt \in Failures : publish_json_give("cli", failAt)
  \/ clears < MaxClear /\ sei_clear_queue("cli")
  \/ clear_queue_give("cli")
  \/ sei_get_queue_status("cli")
  \/ get_queue_size_give("cli")
  \/ video_sei_hook_get_stats("cli")
  \/ get_stats_give("cli")
  \/ \E frame \in Frames, failAt \in Failures :
       frames < MaxFrames /\ video_sei_hook_process_frame("media", frame, failAt)
  \/ \E failAt \in Failures : default_sei_processor("media", failAt)
  \/ \E failAt \in Failures : process_frame_give("media", failAt)
  \/ \E t \in Threads : Return(t)

Spec == Init /\ [][Next]_vars

\* n successful enqueues of the messages first, first + 1, ...
RECURSIVE FillQueue(_, _, _)
FillQueue(pub, first, n) ==
  LET next == publish_json_locked(pub, QueueJson(first), 1, QueueTime(first), 0).pub IN
  \* the test holds always; it has each enqueue computed before the next
  IF n = 0 \/ next.queue_count < 0 THEN pub
  ELSE FillQueue(next, first + 1, n - 1)

\* the publisher after head messages were enqueued and injected into a
\* keyframe and QueuePrefill more were enqueued
QueueStart(head) ==
  LET before == IF head = 0 THEN sei_publisher_init
                ELSE process_frame_locked(FillQueue(sei_publisher_init, 0, head),
                                          ShortCodeFrame, 0).pub
  IN  FillQueue(before, head, QueuePrefill)

InitQueue ==
  /\ g_sei_publisher = TRUE
  /\ publisher \in {QueueStart(head) : head \in PrefillHeads}
  /\ g_hook = video_sei_hook_init
  /\ pc = [t \in Threads |-> "idle"]
  /\ call = [t \in Threads |-> NoCall]
  /\ ret = [t \in Threads |-> NoRet]
  /\ sends = 0
  /\ frames = 0
  /\ clears = 0
  /\ failures = 0

\* the publisher driven past its capacity with distinct short messages
NextQueue ==
  \/ sends < MaxQueueSend
       /\ sei_publisher_publish_json("cli", QueueJson(FirstSend + sends), 1,
                                     QueueTime(FirstSend + sends))
  \/ \E failAt \in Failures : publish_json_give("cli", failAt)
  \/ clears < MaxClear /\ sei_clear_queue("cli")
  \/ clear_queue_give("cli")
  \/ \E frame \in QueueFrames, failAt \in Failures :
       frames < MaxQueueFrames /\ video_sei_hook_process_frame("media", frame, failAt)
  \/ \E failAt \in Failures : default_sei_processor("media", failAt)
  \/ \E failAt \in Failures : process_frame_give("media", failAt)
  \/ \E t \in Threads : Return(t)

SpecQueue == InitQueue /\ [][NextQueue]_vars

\* the frames the pipeline hands to the callback: a keyframe and an empty frame
LifecycleFrames == {FakeFrame, <<>>}

\* power-on: no publisher, g_hook zeroed
InitLifecycle ==
  /\ g_sei_publisher = FALSE
  /\ publisher = sei_publisher_init
  /\ g_hook = g_hook_zero
  /\ pc = [t \in Threads |-> "idle"]
  /\ call = [t \in Threads |-> NoCall]
  /\ ret = [t \in Threads |-> NoRet]
  /\ sends = 0
  /\ frames = 0
  /\ clears = 0
  /\ failures = 0

\* the whole API: the application task sets up, tears down and uses both
\* subsystems while the media task sends frames through the callback; text,
\* status and raw messages are tried while there is no publisher, JSON
\* messages at any time
NextLifecycle ==
  \/ \E failAt \in {0, 1} : sei_init("cli", failAt)
  \/ sei_deinit("cli")
  \/ deinit_clear_give("cli")
  \/ deinit_free("cli")
  \/ \E t \in Threads, ok \in BOOLEAN : undefined_behaviour(t, ok)
  \/ \E failAt \in {0, 1} : hook_init("cli", failAt)
  \/ video_sei_hook_deinit("cli")
  \/ video_sei_hook_reset_stats("cli")
  \/ reset_stats_give("cli")
  \/ \E text \in Texts, now \in Times :
       sends < MaxSend /\ ~g_sei_publisher /\ sei_send_text("cli", text, now)
  \/ \E role \in Roles, content \in Contents, now \in Times :
       sends < MaxSend /\ sei_send_json("cli", role, content, now)
  \/ \E status \in StatusNames, value \in StatusValues, now \in Times :
       sends < MaxSend /\ ~g_sei_publisher /\ sei_send_status("cli", status, value, now)
  \/ \E json_data \in RawJsons, now \in Times :
       /\ sends < MaxSend /\ ~g_sei_publisher
       /\ sei_send_raw_json("cli", json_data, now)
  \/ \E failAt \in Failures : publish_json_give("cli", failAt)
  \/ clears < MaxClear /\ sei_clear_queue("cli")
  \/ clear_queue_give("cli")
  \/ sei_get_queue_status("cli")
  \/ get_queue_size_give("cli")
  \/ video_sei_hook_get_stats("cli")
  \/ get_stats_give("cli")
  \/ \E frame \in LifecycleFrames, failAt \in Failures :
       frames < MaxFrames /\ sei_video_send_callback("media", frame, failAt)
  \/ \E failAt \in Failures : default_sei_processor("media", failAt)
  \/ \E failAt \in Failures : process_frame_give("media", failAt)
  \/ callback_return("media")
  \/ callback_end("media")
  \/ Return("cli")

SpecLifecycle == InitLifecycle /\ [][NextLifecycle]_vars

\* the frames of a stream: a keyframe and a predicted frame
StreamFrames == {FakeFrame, PFrame}

\* the message that is queued when the stream is looked at
StreamMessage == QueueJson(0)

\* strings handed to the publisher itself: a short one, one of
\* SEI_MAX_PAYLOAD_SIZE bytes and one a byte longer
StreamJsons == {QueueJson(1), Fill(98, SEI_MAX_PAYLOAD_SIZE), Fill(98, SEI_MAX_PAYLOAD_SIZE + 1)}

\* the repeat counts handed to the publisher itself
RepeatCounts == {-1, 0, 2}

\* app_main has run; one message may have been published already
InitStream ==
  /\ g_sei_publisher = TRUE
  /\ publisher \in {sei_publisher_init, FillQueue(sei_publisher_init, 0, 1)}
  /\ g_hook = video_sei_hook_init
  /\ pc = [t \in Threads |-> "idle"]
  /\ call = [t \in Threads |-> NoCall]
  /\ ret = [t \in Threads |-> NoRet]
  /\ sends = 0
  /\ frames = 0
  /\ clears = 0
  /\ failures = 0

\* a run of frames goes through the hook while the console task publishes,
\* clears and asks for the queue size
NextStream ==
  \/ \E role \in Roles, content \in Contents, now \in Times :
       sends < MaxSend /\ sei_send_json("cli", role, content, now)
  \/ \E failAt \in {0, 1} : publish_json_give("cli", failAt)
  \/ clears < MaxClear /\ sei_clear_queue("cli")
  \/ clear_queue_give("cli")
  \/ sei_get_queue_status("cli")
  \/ get_queue_size_give("cli")
  \/ \E frame \in StreamFrames, failAt \in Failures :
       frames < MaxStreamFrames /\ video_sei_hook_process_frame("media", frame, failAt)
  \/ \E failAt \in Failures : default_sei_processor("media", failAt)
  \/ \E failAt \in Failures : process_frame_give("media", failAt)
  \/ \E t \in Threads : Return(t)

SpecStream == InitStream /\ [][NextStream]_vars

\* the media task, holding the hook's mutex, calls the processor
ProcessorStep == \E failAt \in Failures : default_sei_processor("media", failAt)

\* the media task leaves the publisher's critical section: the step
\* process_frame_give takes, told by the position of the task alone
DrainEnds ==
  /\ pc["media"] = "process_frame_locked"
  /\ pc' = [pc EXCEPT !["media"] = "done"]

\* the media task runs: a frame call that can take its next step takes it
SpecStreamFair == SpecStream /\ WF_vars(ProcessorStep) /\ WF_pc(DrainEnds)

(***************************************************************************)
(* The encoder and the scans on byte buffers                               *)
(***************************************************************************)
\* the sequences of at most n bytes of the alphabet
RECURSIVE Strings(_, _)
Strings(alphabet, n) ==
  IF n = 0 THEN {<<>>}
  ELSE LET shorter == Strings(alphabet, n - 1) IN
       shorter \cup {Append(str, b) : str \in {x \in shorter : Len(x) = n - 1},
                                      b \in alphabet}

\* payload bytes: the bytes the escaping looks for and one it does not
PayloadBytes == {0, 1, 3, 97}

\* payloads up to the lengths at which the size field takes a second byte
\* (payload_size + 16 = 255) and at which enqueue stops accepting
PayloadPads == {0, 239 - MaxTail, SEI_MAX_PAYLOAD_SIZE - MaxTail}

CodecPayloads ==
  {Fill(97, pad) \o tail : pad \in PayloadPads, tail \in Strings(PayloadBytes, MaxTail)}

\* buffers of the escaping: zero, the bytes 01 and 03 and a byte above 03
EscapeBuffers == Strings({0, 1, 3, 4}, MaxBufferLen)

\* frames of the scans: start code bytes and NAL headers of type 1 (slice),
\* 5 (IDR slice) and 7 (SPS)
ShortScanFrames == Strings({0, 1, 65, 101, 103}, MaxScanLen)

\* an SPS followed by an IDR slice of which the frame holds the header only,
\* behind a 3-byte and behind a 4-byte start code
BoundaryFrames ==
  {<<0, 0, 1, 103, 66, 0, 0, 1, 101>>, <<0, 0, 0, 1, 103, 66, 0, 0, 0, 1, 101>>}

ScanFrames == ShortScanFrames \cup BoundaryFrames

\* the calls on byte buffers, one per input
EncodeCalls ==
  {[NoCall EXCEPT !.op = "create_sei_nal_unit", !.json_str = payload] :
     payload \in CodecPayloads}

EscapeCalls ==
  {[NoCall EXCEPT !.op = "do_emulation_prevention", !.frame = buffer] :
     buffer \in EscapeBuffers}

ScanCalls ==
  {[NoCall EXCEPT !.op = "find_insert_position", !.frame = frame] :
     frame \in ScanFrames}

InitBytes ==
  /\ g_sei_publisher = TRUE
  /\ publisher = sei_publisher_init
  /\ g_hook = video_sei_hook_init
  /\ pc = [t \in Threads |-> IF t = "media" THEN "called" ELSE "idle"]
  /\ \/ \E c \in EncodeCalls : call = [t \in Threads |-> IF t = "media" THEN c ELSE NoCall]
     \/ \E c \in EscapeCalls : call = [t \in Threads |-> IF t = "media" THEN c ELSE NoCall]
     \/ \E c \in ScanCalls : call = [t \in Threads |-> IF t = "media" THEN c ELSE NoCall]
  /\ ret = [t \in Threads |-> NoRet]
  /\ sends = 0
  /\ frames = 0
  /\ clears = 0
  /\ failures = 0

\* create_sei_nal_unit on the payload of the call: call.frame keeps
\* temp_buffer, the return holds the output and its size
create_sei_nal_unit_call(t) ==
  /\ pc[t] = "called" /\ call[t].op = "create_sei_nal_unit"
  /\ \E unit \in {create_sei_nal_unit(SEND_SEI_UUID, call[t].json_str)} :
       Finish(t, [call[t] EXCEPT !.frame = sei_temp_buffer(SEND_SEI_UUID, call[t].json_str)],
              [NoRet EXCEPT !.ok = TRUE, !.path = "encoded", !.value = Len(unit),
                            !.out = [data |-> Ptr(unit), size |-> Len(unit)]])
  /\ UNCHANGED <<g_sei_publisher, publisher, g_hook, sends, frames, clears, failures>>

\* do_emulation_prevention on the buffer of the call
do_emulation_prevention_call(t) ==
  /\ pc[t] = "called" /\ call[t].op = "do_emulation_prevention"
  /\ \E output \in {do_emulation_prevention(call[t].frame)} :
       Finish(t, call[t],
              [NoRet EXCEPT !.ok = TRUE, !.path = "escaped", !.value = Len(output),
                            !.out = [data |-> Ptr(output), size |-> Len(output)]])
  /\ UNCHANGED <<g_sei_publisher, publisher, g_hook, sends, frames, clears, failures>>

\* what find_insert_position returns: on a frame shorter than 4 bytes the
\* loop bound frame_size - 4 wraps and the scan reads past the frame, so it
\* may come back with any offset or with -1
insert_positions(frame) ==
  IF find_insert_position(frame) = ScanOutOfBounds THEN -1..Len(frame)
  ELSE {find_insert_position(frame)}

\* the two scans of sei_publisher_process_frame on the frame of the call: ok
\* is the keyframe test, value what find_insert_position returns
scan_call(t) ==
  /\ pc[t] = "called" /\ call[t].op = "find_insert_position"
  /\ \E position \in insert_positions(call[t].frame) :
       Finish(t, call[t],
              [NoRet EXCEPT !.ok = is_keyframe(call[t].frame), !.path = "scanned",
                            !.value = position])
  /\ UNCHANGED <<g_sei_publisher, publisher, g_hook, sends, frames, clears, failures>>

NextBytes ==
  \/ create_sei_nal_unit_call("media")
  \/ do_emulation_prevention_call("media")
  \/ scan_call("media")

SpecBytes == InitBytes /\ [][NextBytes]_vars


(***************************************************************************)
(* What the properties observe                                             *)
(***************************************************************************)
\* the resident messages, oldest first
QueueMessages(pub) ==
  [k \in 1..pub.queue_count |->
     pub.message_queue[(pub.queue_head + k - 1) % SEI_MAX_QUEUE_SIZE]]

QueuePayloads(pub) ==
  [k \in 1..pub.queue_count |-> QueueMessages(pub)[k].payload.buf]

\* count, head, tail and every slot agree
SameQueue(p, q) ==
  /\ p.queue_count = q.queue_count
  /\ p.queue_head = q.queue_head
  /\ p.queue_tail = q.queue_tail
  /\ p.message_queue = q.message_queue

\* the message an enqueue of call c leaves in the queue
EnqueuedMessage(c) ==
  [payload |-> Ptr(c.json_str), payload_size |-> Len(c.json_str),
   repeat_count |-> c.repeat_count, timestamp |-> c.now]

\* H.264 Annex B: a NAL unit of one of the types begins in the frame
ContainsNal(frame, types) ==
  \E i \in 0..(Len(frame) - 4) :
    StartCode3(frame, i) /\ NalType(At(frame, i + 3)) \in types

\* the offsets at which the start code of a coded-slice NAL unit begins
SliceStarts(frame) ==
  {i \in 0..(Len(frame) - 4) :
     \/ StartCode3(frame, i) /\ IsSliceType(NalType(At(frame, i + 3)))
     \/ /\ i + 4 < Len(frame)
        /\ StartCode4(frame, i)
        /\ IsSliceType(NalType(At(frame, i + 4)))}

\* ITU-T H.264 D.1: the payload size as 0xFF bytes and a last byte
SizeField(v) == [k \in 1..(v \div 255) |-> 255] \o <<v % 255>>

\* the SEI NAL unit of a payload that holds no two zero bytes in a row
ExpectedUnit(payload) ==
  <<0, 0, 0, 1, 6, 5>> \o SizeField(Len(payload) + 16) \o SEND_SEI_UUID
    \o payload \o <<128>>

RECURSIVE Repeated(_, _)
Repeated(unit, n) == IF n = 0 THEN <<>> ELSE unit \o Repeated(unit, n - 1)

\* the units of messages k.. of a queue: each message's unit repeat_count
\* times, the messages in order
RECURSIVE UnitsFrom(_, _)
UnitsFrom(msgs, k) ==
  IF k > Len(msgs) THEN <<>>
  ELSE Repeated(ExpectedUnit(msgs[k].payload.buf), msgs[k].repeat_count)
         \o UnitsFrom(msgs, k + 1)

RECURSIVE RepeatsFrom(_, _, _)
RepeatsFrom(msgs, payload, k) ==
  IF k > Len(msgs) THEN 0
  ELSE (IF msgs[k].payload.buf = payload THEN msgs[k].repeat_count ELSE 0)
         + RepeatsFrom(msgs, payload, k + 1)

\* the repeat counts of messages k.. added up
RECURSIVE TotalRepeats(_, _)
TotalRepeats(msgs, k) ==
  IF k > Len(msgs) THEN 0 ELSE msgs[k].repeat_count + TotalRepeats(msgs, k + 1)

\* the offsets at which buf holds the unit
UnitOffsets(buf, unit) ==
  {i \in 0..(Len(buf) - Len(unit)) :
     At(buf, i) = 0 /\ At(buf, i + 4) = 6 /\ Slice(buf, i, Len(unit)) = unit}

\* the offsets at which an SEI NAL unit of type user_data_unregistered starts
SeiStarts(buf) ==
  {i \in 0..(Len(buf) - 6) :
     StartCode4(buf, i) /\ At(buf, i + 4) = 6 /\ At(buf, i + 5) = 5}

\* the unit at offset i carries the UUID behind its size field
BearsUuid(buf, i) ==
  LET uuid_start == IF At(buf, i + 6) = 255 THEN i + 8 ELSE i + 7 IN
  /\ uuid_start + 16 <= Len(buf)
  /\ Slice(buf, uuid_start, 16) = SEND_SEI_UUID

LastOf(seq, n) == IF Len(seq) <= n THEN seq ELSE SubSeq(seq, Len(seq) - n + 1, Len(seq))

\* thread t's frame call passes through the publisher's critical section
InjectorStep(t) == pc[t] = "process_frame_locked" /\ pc'[t] = "done"

\* thread t's frame call returns
FrameReturn(t) ==
  /\ pc[t] \in {"idle", "hook_locked", "process_frame_locked"}
  /\ pc'[t] = "done"
  /\ call'[t].op = "video_sei_hook_process_frame"

\* the call returned success and a buffer equal to its frame
ReturnsCopy(r, frame) ==
  r.ok /\ r.out = [data |-> Ptr(frame), size |-> Len(frame)]

\* no allocation fails in the step
NoAllocationFailure == failures' = failures

(***************************************************************************)
(* Properties                                                              *)
(***************************************************************************)
\* C1: in every reachable state 0 <= queue_count <= SEI_MAX_QUEUE_SIZE, and
\* when the queue is not empty the head index lies in 0..SEI_MAX_QUEUE_SIZE-1
\* and designates a slot that holds a live message.
C1_QueueBounds ==
  /\ publisher.queue_count >= 0
  /\ publisher.queue_count <= SEI_MAX_QUEUE_SIZE
  /\ publisher.queue_count > 0 =>
       /\ publisher.queue_head \in 0..(SEI_MAX_QUEUE_SIZE - 1)
       /\ publisher.message_queue[publisher.queue_head].payload.st = "live"

\* an enqueue into the full queue has returned and the queue is full again
C1_Witness ==
  /\ pc["cli"] = "done"
  /\ call["cli"].op = "sei_publisher_publish_json"
  /\ ret["cli"].ok
  /\ QueuePrefill + sends > SEI_MAX_QUEUE_SIZE
  /\ frames = 0 /\ clears = 0
  /\ publisher.queue_count = SEI_MAX_QUEUE_SIZE

\* the enqueues completed so far in a behaviour of SpecQueue
Enqueued == sends - (IF pc["cli"] = "publish_json_locked" THEN 1 ELSE 0)

\* the payloads resident at the start (from message h on) and enqueued since
EnqueuedPayloads(h) ==
  [k \in 1..(QueuePrefill + Enqueued) |->
     IF k <= QueuePrefill THEN QueueJson(h + k - 1)
     ELSE QueueJson(FirstSend + k - QueuePrefill - 1)]

\* after n >= SEI_MAX_QUEUE_SIZE successful enqueues into the empty queue,
\* no frame processed and nothing cleared in between, the queue holds the
\* SEI_MAX_QUEUE_SIZE most recent payloads in order
C2_MostRecent ==
  (frames = 0 /\ clears = 0 /\ failures = 0) =>
    \E h \in PrefillHeads :
      LET n == QueuePrefill + Enqueued
          evicted == IF n > SEI_MAX_QUEUE_SIZE THEN n - SEI_MAX_QUEUE_SIZE ELSE 0
      IN  /\ publisher.queue_head = (h + evicted) % SEI_MAX_QUEUE_SIZE
          /\ QueuePayloads(publisher) = LastOf(EnqueuedPayloads(h), SEI_MAX_QUEUE_SIZE)

\* a successful enqueue into the full queue removes the oldest message only
\* and appends the new one
C2_EvictsOldest ==
  \A t \in Threads :
    (/\ pc[t] = "publish_json_locked" /\ pc'[t] = "done" /\ ret'[t].ok
     /\ publisher.queue_count = SEI_MAX_QUEUE_SIZE)
    => QueueMessages(publisher')
         = Append(Tail(QueueMessages(publisher)), EnqueuedMessage(call[t]))

\* C2: drop-oldest overflow: a successful enqueue into a full queue evicts
\* exactly the oldest message and appends the new one, and after
\* SEI_MAX_QUEUE_SIZE + 1 successful enqueues into an empty queue (no frame
\* processed in between) the queue holds exactly the SEI_MAX_QUEUE_SIZE most
\* recent messages in order.
C2_DropOldest == [](C2_MostRecent) /\ [][C2_EvictsOldest]_vars

\* SEI_MAX_QUEUE_SIZE + 1 enqueues have succeeded and no frame was processed
C2_Witness ==
  /\ frames = 0 /\ clears = 0 /\ failures = 0
  /\ pc["cli"] = "done"
  /\ call["cli"].op = "sei_publisher_publish_json"
  /\ ret["cli"].ok
  /\ QueuePrefill + sends = SEI_MAX_QUEUE_SIZE + 1
  /\ publisher.queue_count = SEI_MAX_QUEUE_SIZE

\* the resident messages are in the order of their enqueue
C3_ResidentInOrder ==
  \A i \in 1..publisher.queue_count, j \in 1..publisher.queue_count :
    i < j => QueueMessages(publisher)[i].timestamp < QueueMessages(publisher)[j].timestamp

\* messages leave the queue from its front only: what stays is a suffix of
\* the queue, followed by at most one new message
C3_LeavesFromFront ==
  LET before == QueueMessages(publisher)
      after == QueueMessages(publisher')
  IN  \E k \in 0..Len(before) :
        LET rest == SubSeq(before, k + 1, Len(before)) IN
        \/ after = rest
        \/ Len(after) = Len(rest) + 1 /\ SubSeq(after, 1, Len(rest)) = rest

\* a drain splices the units in queue order: before a slice NAL unit the
\* unit of an older message lies in front of the unit of a newer one, and
\* in a frame without a slice, where each splice goes to the front of the
\* frame, it lies behind
C3_SplicedOldestFirst ==
  \A t \in Threads :
    (/\ InjectorStep(t)
     /\ ContainsNal(call[t].frame, {5, 7, 8})
     /\ publisher.queue_count > 0
     /\ NoAllocationFailure)
    => LET msgs == QueueMessages(publisher)
           out == ret'[t].out.data.buf
           At1(k) == Minimum(UnitOffsets(out, ExpectedUnit(msgs[k].payload.buf)))
       IN  /\ publisher'.queue_count = 0
           /\ \A k \in 1..Len(msgs) :
                UnitOffsets(out, ExpectedUnit(msgs[k].payload.buf)) # {}
           /\ \A i \in 1..(Len(msgs) - 1) :
                IF SliceStarts(call[t].frame) # {}
                THEN At1(i) < At1(i + 1)
                ELSE At1(i) > At1(i + 1)

\* C3: FIFO consumption: a drain on a keyframe encodes and splices the
\* resident messages oldest first, and no message is consumed before an
\* earlier-enqueued message that is still resident.
C3_FifoConsumption ==
  [](C3_ResidentInOrder) /\ [][C3_LeavesFromFront /\ C3_SplicedOldestFirst]_vars

\* a keyframe with a slice has drained a full queue that had overflowed
C3_Witness ==
  /\ pc["media"] = "done"
  /\ ret["media"].ok /\ ret["media"].path = "locked"
  /\ call["media"].frame = ShortCodeFrame
  /\ sends >= 2 /\ clears = 0 /\ failures = 0
  /\ publisher.queue_count = 0
  /\ Cardinality(SeiStarts(ret["media"].out.data.buf)) = SEI_MAX_QUEUE_SIZE

C5_DrainSplicesRepeats ==
  [][\A t \in Threads :
       (/\ InjectorStep(t)
        /\ ContainsNal(call[t].frame, {5, 7, 8})
        /\ publisher.queue_count > 0
        /\ NoAllocationFailure)
       => LET msgs == QueueMessages(publisher)
              out == ret'[t].out.data.buf
          IN  /\ ret'[t].ok
              /\ ret'[t].out.size = Len(out)
              /\ publisher'.queue_count = 0
              /\ \A k \in 1..Len(msgs) :
                   Cardinality(UnitOffsets(out, ExpectedUnit(msgs[k].payload.buf)))
                     = RepeatsFrom(msgs, msgs[k].payload.buf, 1)
              /\ Cardinality(SeiStarts(out))
                   = Cardinality(SeiStarts(call[t].frame)) + TotalRepeats(msgs, 1)
              /\ \A i \in SeiStarts(out) : BearsUuid(out, i)]_vars


\* a keyframe has drained one message of repeat_count 3: three units
C5_Witness ==
  /\ pc["media"] = "done"
  /\ ret["media"].ok /\ ret["media"].path = "locked"
  /\ ContainsNal(call["media"].frame, {5, 7, 8})
  /\ failures = 0
  /\ publisher.queue_count = 0
  /\ Cardinality(SeiStarts(ret["media"].out.data.buf)) = SEI_DEFAULT_REPEAT_COUNT

C7_SplicedBeforeFirstSlice ==
  [][\A t \in Threads :
       (/\ InjectorStep(t)
        /\ ContainsNal(call[t].frame, {5, 7, 8})
        /\ SliceStarts(call[t].frame) # {}
        /\ publisher.queue_count > 0
        /\ NoAllocationFailure)
       => LET frame == call[t].frame
              position == Minimum(SliceStarts(frame))
              units == UnitsFrom(QueueMessages(publisher), 1)
          IN  /\ ret'[t].ok
              /\ ret'[t].out.size = Len(frame) + Len(units)
              /\ ret'[t].out.data
                   = Ptr(Slice(frame, 0, position) \o units
                           \o Slice(frame, position, Len(frame) - position))]_vars

\* the SPS + PPS + IDR frame came back with three units of one message
\* between its byte 15 and the IDR start code at byte 16
C7_Witness ==
  /\ pc["media"] = "done"
  /\ call["media"].frame = FakeFrame
  /\ ret["media"].ok /\ ret["media"].path = "locked"
  /\ \E role \in Roles, content \in Contents, now \in Times :
       LET unit == ExpectedUnit(
                     snprintf(SEI_MAX_PAYLOAD_SIZE, json_format(role, content, now)).buffer)
       IN  /\ ret["media"].out.size = Len(FakeFrame) + 3 * Len(unit)
           /\ ret["media"].out.data.buf
                = Slice(FakeFrame, 0, 16) \o unit \o unit \o unit
                    \o Slice(FakeFrame, 16, Len(FakeFrame) - 16)

PublishOps ==
  {"sei_send_text", "sei_send_json", "sei_send_status", "sei_send_raw_json",
   "sei_publisher_publish_json"}

\* thread t starts a publishing call on the initialized publisher
PublishCall(t) ==
  pc[t] = "idle" /\ pc'[t] # "idle" /\ call'[t].op \in PublishOps /\ g_sei_publisher

\* C9: publish_json of a payload longer than SEI_MAX_PAYLOAD_SIZE returns
\* failure and leaves the queue (count, head, tail, messages) unchanged; a
\* payload of exactly SEI_MAX_PAYLOAD_SIZE bytes passes the size check and,
\* the allocation succeeding, is enqueued whole.
C9_PayloadSizeLimit ==
  [][\A t \in Threads :
       /\ (PublishCall(t) /\ Len(call'[t].json_str) > SEI_MAX_PAYLOAD_SIZE)
          => /\ pc'[t] = "done" /\ ~ret'[t].ok
             /\ publisher' = publisher
       /\ (/\ PublishCall(t) /\ Len(call'[t].json_str) = SEI_MAX_PAYLOAD_SIZE
           /\ publisher.mutex = NoThread)
          => pc'[t] = "publish_json_locked"
       /\ (/\ pc[t] = "publish_json_locked" /\ pc'[t] = "done"
           /\ Len(call[t].json_str) = SEI_MAX_PAYLOAD_SIZE
           /\ NoAllocationFailure)
          => /\ ret'[t].ok
             /\ publisher'.queue_count > 0
             /\ QueueMessages(publisher')[publisher'.queue_count]
                  = EnqueuedMessage(call[t])]_vars

\* a string of SEI_MAX_PAYLOAD_SIZE + 1 bytes has been refused while one of
\* SEI_MAX_PAYLOAD_SIZE bytes is resident
C9_Witness ==
  /\ pc["cli"] = "done"
  /\ Len(call["cli"].json_str) = SEI_MAX_PAYLOAD_SIZE + 1
  /\ ~ret["cli"].ok /\ ret["cli"].path = "too_large"
  /\ publisher.queue_count = 1
  /\ QueueMessages(publisher)[1].payload_size = SEI_MAX_PAYLOAD_SIZE
  /\ QueueMessages(publisher)[1].payload = Ptr(Fill(98, SEI_MAX_PAYLOAD_SIZE))

\* the facade calls
FacadeOps == {"sei_send_text", "sei_send_json", "sei_send_status", "sei_send_raw_json"}

\* C10: a facade call (sei_send_text, sei_send_json, sei_send_status,
\* sei_send_raw_json) whose formatted payload would exceed
\* SEI_MAX_PAYLOAD_SIZE is rejected: it returns failure and enqueues
\* nothing, rather than enqueue a truncated payload.
C10_OversizeRejected ==
  [][\A t \in Threads :
       /\ (/\ PublishCall(t) /\ call'[t].op \in FacadeOps
           /\ call'[t].json_len > SEI_MAX_PAYLOAD_SIZE)
          => /\ pc'[t] = "done" /\ ~ret'[t].ok
             /\ publisher' = publisher
       /\ (/\ pc[t] = "publish_json_locked" /\ pc'[t] = "done"
           /\ call[t].op \in FacadeOps)
          => call[t].json_len <= SEI_MAX_PAYLOAD_SIZE]_vars

(***************************************************************************)
(* C11                                                                     *)
(***************************************************************************)
\* thread t enters the call op
Calls(t, op) == pc[t] = "idle" /\ pc'[t] # "idle" /\ call'[t].op = op

\* the step leaves the publisher, its handle and the hook as they were
NoSideEffect ==
  /\ g_sei_publisher' = g_sei_publisher
  /\ publisher' = publisher
  /\ g_hook' = g_hook

\* C11: a call made while its subsystem is not initialized, before the
\* first init or after a deinit, returns at once without side effects: the
\* four sends return false, sei_get_queue_status returns -1,
\* sei_clear_queue does nothing, video_sei_hook_process_frame returns false
\* and writes no output and no statistics
C11_UninitializedRejected ==
  [][\A t \in Threads :
       /\ (\E op \in FacadeOps : Calls(t, op)) /\ ~g_sei_publisher
            => pc'[t] = "done" /\ ~ret'[t].ok /\ NoSideEffect
       /\ Calls(t, "sei_get_queue_status") /\ ~g_sei_publisher
            => pc'[t] = "done" /\ ret'[t].value = -1 /\ NoSideEffect
       /\ Calls(t, "sei_clear_queue") /\ ~g_sei_publisher
            => pc'[t] = "done" /\ NoSideEffect
       /\ Calls(t, "video_sei_hook_process_frame") /\ ~g_hook.initialized
            => pc'[t] = "done" /\ ~ret'[t].ok /\ ret'[t].out = NoOutput
               /\ NoSideEffect]_vars

\* a send is refused for want of a publisher while a frame is refused by
\* the hook that is not set up
C11_Witness ==
  /\ ~g_sei_publisher /\ ~g_hook.initialized
  /\ pc["cli"] = "done" /\ call["cli"].op \in FacadeOps /\ ret["cli"].path = "refused"
  /\ pc["media"] = "done" /\ call["media"].op = "video_sei_hook_process_frame"
  /\ ret["media"].path = "refused"

(***************************************************************************)
(* C12                                                                     *)
(***************************************************************************)
\* C12: init and deinit are idempotent: sei_init with a publisher in place
\* and video_sei_hook_init on the initialized hook return true and leave the
\* publisher with its queue, the processor and the statistics as they were;
\* sei_deinit without a publisher and video_sei_hook_deinit on the hook that
\* is not initialized change nothing
C12_IdempotentLifecycle ==
  [][\A t \in Threads :
       /\ Calls(t, "sei_init") /\ g_sei_publisher
            => pc'[t] = "done" /\ ret'[t].ok /\ NoSideEffect
       /\ Calls(t, "video_sei_hook_init") /\ g_hook.initialized
            => pc'[t] = "done" /\ ret'[t].ok /\ NoSideEffect
       /\ Calls(t, "sei_deinit") /\ ~g_sei_publisher
            => pc'[t] = "done" /\ NoSideEffect
       /\ Calls(t, "video_sei_hook_deinit") /\ ~g_hook.initialized
            => pc'[t] = "done" /\ NoSideEffect]_vars

\* sei_init has returned true with a message in the queue and a frame counted
C12_Witness ==
  /\ pc["cli"] = "done" /\ call["cli"].op = "sei_init" /\ ret["cli"].ok
  /\ g_sei_publisher /\ publisher.queue_count > 0
  /\ g_hook.initialized /\ g_hook.frames_processed > 0

(***************************************************************************)
(* C13                                                                     *)
(***************************************************************************)
\* the payloads of the publisher that are allocated
LivePayloads(pub) ==
  {i \in 0..(SEI_MAX_QUEUE_SIZE - 1) : pub.message_queue[i].payload # NULL}

\* sei_deinit returns to thread t
DeinitReturns(t) ==
  pc[t] # "done" /\ pc'[t] = "done" /\ call'[t].op = "sei_deinit"

\* C13: when sei_deinit returns, every message that was still queued has
\* been released with the queue, whatever the other threads that use the
\* publisher mutex do meanwhile: no payload of the queue stays allocated
C13_DeinitReleasesQueue ==
  [][\A t \in Threads : DeinitReturns(t) => LivePayloads(publisher') = {}]_vars

(***************************************************************************)
(* C14                                                                     *)
(***************************************************************************)
\* sei_video_send_callback returns to the pipeline on thread t
CallbackReturns(t) == pc[t] # "callback_done" /\ pc'[t] = "callback_done"

\* C14: sei_video_send_callback returns 0 for every frame, and when
\* video_sei_hook_process_frame has failed (hook not initialized, allocation
\* failure) the frame keeps the data and the size it had
C14_CallbackPassThrough ==
  [][\A t \in Threads :
       CallbackReturns(t)
         => /\ ret'[t].value = 0
            /\ pc[t] = "done" /\ ~ret[t].ok => call'[t].frame = call[t].frame]_vars

\* the callback has returned after the hook failed on an allocation with a
\* size already written to the output
C14_Witness ==
  /\ pc["media"] = "callback_done"
  /\ call["media"].op = "video_sei_hook_process_frame"
  /\ ~ret["media"].ok /\ ret["media"].out.size > 0
  /\ call["media"].frame = FakeFrame
  /\ failures > 0

(***************************************************************************)
(* C15                                                                     *)
(***************************************************************************)
\* the step of thread t is a drain whose first splice fails on its
\* allocation: the copy of the frame was allocated, the next allocation failed
FirstSpliceFails(t) ==
  /\ InjectorStep(t)
  /\ is_keyframe(call[t].frame) /\ publisher.queue_count > 0
  /\ failures' > failures
  /\ ret'[t].out = process_frame_locked(publisher, call[t].frame, 2).out

\* C15: a splice that fails on its buffer allocation during process_frame
\* leaves the working frame untouched and is signalled to the caller of
\* process_frame, and the message whose splice failed is not silently
\* dropped: it is still the head of the queue
C15_FailedSpliceSignalled ==
  [][\A t \in Threads :
       FirstSpliceFails(t)
         => /\ ret'[t].out.data = Ptr(call[t].frame)
            /\ ~ret'[t].ok
            /\ publisher'.queue_head = publisher.queue_head
            /\ publisher'.queue_count = publisher.queue_count
            /\ publisher.queue_head \in LivePayloads(publisher')]_vars

(***************************************************************************)
(* C16                                                                     *)
(***************************************************************************)
\* C16: process_frame does not write to its input; every successful call,
\* the copy-through paths included, returns a buffer that it has allocated,
\* and every working buffer of the call is freed before it returns: one
\* buffer of the call is left allocated, the one handed to the caller (none
\* when the call fails)
C16_OneNewBuffer ==
  [][\A t \in Threads :
       FrameReturn(t)
         => /\ pc[t] # "idle" => call'[t].frame = call[t].frame
            /\ ret'[t].ok => ret'[t].out.data.st = "live" /\ ret'[t].live = 1
            /\ ~ret'[t].ok => ret'[t].out.data = NULL /\ ret'[t].live = 0]_vars

\* a call has returned a frame with the three units of a message spliced
\* in, each splice having replaced the working buffer
C16_Witness ==
  /\ pc["media"] = "done" /\ ret["media"].ok /\ ret["media"].path = "locked"
  /\ ret["media"].out.size > Len(call["media"].frame)
  /\ Cardinality(SeiStarts(ret["media"].out.data.buf)) = SEI_DEFAULT_REPEAT_COUNT
  /\ ret["media"].live = 1

(***************************************************************************)
(* C17                                                                     *)
(***************************************************************************)
\* C17 as stated: frames_processed grows by one on each frame-processing
\* call whose result is larger than its input and stays as it is on a call
\* whose result has the size of its input
C17_CountsGrownFrames ==
  [][\A t \in Threads :
       FrameReturn(t) /\ ret'[t].ok
         => g_hook'.frames_processed =
              g_hook.frames_processed
                + (IF ret'[t].out.size > Len(call'[t].frame) THEN 1 ELSE 0)]_vars

\* C17: frames_processed grows by one on each frame-processing call in which
\* the processor, called with the hook mutex held, returns true, whether the
\* result is larger than the input or not, and stays as it is when the
\* processor fails, when the hook mutex is not acquired and when the hook is
\* not initialized
C17_CountsProcessedFrames ==
  [][\A t \in Threads :
       FrameReturn(t)
         => g_hook'.frames_processed =
              g_hook.frames_processed
                + (IF pc[t] # "idle" /\ ret'[t].ok THEN 1 ELSE 0)]_vars

\* a frame has come back with the size it had and has been counted
C17_Witness ==
  /\ pc["media"] = "done" /\ ret["media"].ok /\ ret["media"].path = "locked"
  /\ ret["media"].out.size = Len(call["media"].frame)
  /\ g_hook.frames_processed = 1

(***************************************************************************)
(* C18                                                                     *)
(***************************************************************************)
\* C18: sei_units_inserted grows by one per splice: after a call that
\* splices k units into the frame, k being the sum of the repeat counts of
\* the messages it drains, the counter has grown by k
C18_CountsEverySplice ==
  [][\A t \in Threads :
       (/\ InjectorStep(t)
        /\ ContainsNal(call[t].frame, {5, 7, 8})
        /\ publisher.queue_count > 0
        /\ NoAllocationFailure)
       => g_hook'.sei_units_inserted =
            g_hook.sei_units_inserted + TotalRepeats(QueueMessages(publisher), 1)]_vars

(***************************************************************************)
(* C19                                                                     *)
(***************************************************************************)
\* the three statistics counters of the hook
Counters(hook) ==
  <<hook.frames_processed, hook.sei_units_inserted, hook.total_sei_bytes>>

\* the critical section of video_sei_hook_reset_stats
ResetStep == \E t \in Threads : pc[t] = "reset_stats_locked" /\ pc'[t] = "done"

\* a thread takes the values of the counters of the initialized hook
ReadsCounters(t) ==
  g_hook.initialized /\ ret[t].stats = <<>> /\ ret'[t].stats = Counters(g_hook)

\* C19: from one state to the next no counter decreases unless
\* video_sei_hook_reset_stats resets it, and the counters are written and
\* read only by a thread that holds the hook mutex
C19_CountersMonotoneUnderMutex ==
  [][/\ ResetStep \/ \A k \in 1..3 : Counters(g_hook')[k] >= Counters(g_hook)[k]
     /\ Counters(g_hook') # Counters(g_hook) => g_hook.mutex # NoThread
     /\ \A t \in Threads : ReadsCounters(t) => g_hook.mutex = t]_vars

(***************************************************************************)
(* C20                                                                     *)
(***************************************************************************)
\* C20: the queue is a buffer of 10 messages: it never holds more than 10,
\* and after more than 10 distinct messages were sent one after the other
\* with no frame processed (12 in the claim: messages 3 to 12 stay) the
\* queue size is 10 and the queue holds the 10 most recent messages in order
C20_TenMessageBuffer ==
  /\ publisher.queue_count <= 10
  /\ (frames = 0 /\ clears = 0 /\ failures = 0 /\ QueuePrefill + Enqueued > 10)
       => /\ publisher.queue_count = 10
          /\ \E h \in PrefillHeads :
               QueuePayloads(publisher) = LastOf(EnqueuedPayloads(h), 10)

\* the payloads resident in the queue
Resident(pub) == {QueuePayloads(pub)[k] : k \in 1..pub.queue_count}

\* C21: queue latency is at most 2 video frames: a message queued before a
\* run of frame-processing calls is no longer in the queue once the second of
\* those calls has returned.
C21_LatencyTwoFrames ==
  (frames >= 2 /\ pc["media"] \in {"idle", "done"})
    => StreamMessage \notin Resident(publisher)

\* the step injects the payload whole: a keyframe passes through the critical
\* section and comes out with one unit of the payload per repeat
InjectedWhole(payload) ==
  \E t \in Threads :
    /\ InjectorStep(t)
    /\ ContainsNal(call[t].frame, {5, 7, 8})
    /\ Cardinality(UnitOffsets(ret'[t].out.data.buf, ExpectedUnit(payload)))
         = RepeatsFrom(QueueMessages(publisher), payload, 1)

\* the step is an enqueue into a full queue
EvictingStep ==
  \E t \in Threads :
    /\ pc[t] = "publish_json_locked" /\ pc'[t] = "done"
    /\ publisher.queue_count = SEI_MAX_QUEUE_SIZE

\* the step is the critical section of a clear
ClearingStep ==
  \E t \in Threads : pc[t] = "clear_queue_locked" /\ pc'[t] = "done"

\* C22: a queued message is never injected into a non-keyframe: a call on a
\* non-keyframe leaves the queue as it is and adds no SEI unit; a keyframe call
\* that acquires the lock and succeeds empties the queue; and a message leaves
\* the queue only injected whole into a keyframe, evicted by an enqueue into
\* the full queue, or cleared.
C22_InjectedEvictedOrCleared ==
  [][/\ \A t \in Threads :
          /\ (FrameReturn(t) /\ ~ContainsNal(call'[t].frame, {5, 7, 8}))
               => /\ SameQueue(publisher, publisher')
                  /\ SeiStarts(ret'[t].out.data.buf) \subseteq SeiStarts(call'[t].frame)
          /\ (InjectorStep(t) /\ ContainsNal(call[t].frame, {5, 7, 8}) /\ ret'[t].ok)
               => publisher'.queue_count = 0
     /\ \A payload \in Resident(publisher) \ Resident(publisher') :
          InjectedWhole(payload) \/ EvictingStep \/ ClearingStep]_vars

\* thread t is inside a critical section of the queue
InSection(t) == pc[t] \in PublisherSections

\* C23: the queue operations exclude each other: a thread is inside a queue
\* critical section exactly when it holds the mutex, so never two at once; the
\* queue changes only in the step that ends the holder's critical section; an
\* enqueue leaves its message whole at the tail; a drain is all or nothing
\* and, no allocation failing in it, injects every message it takes whole.
C23_MutualExclusion ==
  [][/\ \A t \in Threads : InSection(t) <=> publisher.mutex = t
     /\ \A t, u \in Threads : (InSection(t) /\ InSection(u)) => t = u
     /\ ~SameQueue(publisher, publisher')
          => \E t \in Threads : InSection(t) /\ pc'[t] = "done"
     /\ \A t \in Threads :
          /\ (pc[t] = "publish_json_locked" /\ pc'[t] = "done" /\ ret'[t].ok)
               => /\ publisher'.queue_count > 0
                  /\ QueueMessages(publisher')[publisher'.queue_count]
                       = EnqueuedMessage(call[t])
          /\ InjectorStep(t)
               => /\ SameQueue(publisher, publisher') \/ publisher'.queue_count = 0
                  /\ (NoAllocationFailure /\ ~SameQueue(publisher, publisher'))
                       => \A payload \in Resident(publisher) : InjectedWhole(payload)]_vars

\* an enqueue found the mutex held by the frame call and gave up
C23_Witness ==
  /\ pc["media"] = "process_frame_locked"
  /\ publisher.mutex = "media"
  /\ is_keyframe(call["media"].frame)
  /\ pc["cli"] = "done"
  /\ call["cli"].op = "sei_send_json"
  /\ ret["cli"].path = "timeout"

\* thread t's step encodes SEI NAL units and splices them: the drain of a
\* keyframe with messages queued
SplicingStep(t) ==
  /\ InjectorStep(t)
  /\ is_keyframe(call[t].frame)
  /\ publisher.queue_count > 0

\* C24 as stated: neither the queue lock nor the statistics lock is held
\* while an SEI NAL unit is encoded or a splice (allocation and copy of the
\* frame) is performed.
C24_LocksOnlyForMutation ==
  [][\A t \in Threads :
       SplicingStep(t) => publisher.mutex # t /\ g_hook.mutex # t]_vars

\* C24: the queue lock and the statistics lock are both held by the calling
\* thread for the whole drain, the encoding of each SEI NAL unit and every
\* splice included, and both are given when the drain is over.
C24_LocksHeldAcrossSplice ==
  [][\A t \in Threads :
       SplicingStep(t)
         => /\ publisher.mutex = t /\ g_hook.mutex = t
            /\ publisher'.mutex = NoThread /\ g_hook'.mutex = NoThread]_vars

\* a keyframe came out of the drain with its units spliced, the locks free
C24_Witness ==
  /\ pc["media"] = "done"
  /\ ret["media"].path = "locked"
  /\ is_keyframe(call["media"].frame)
  /\ SeiStarts(ret["media"].out.data.buf) # SeiStarts(call["media"].frame)
  /\ publisher.mutex = NoThread /\ g_hook.mutex = NoThread

\* the SEI NAL units buf holds
UnitCount(buf) == Cardinality(SeiStarts(buf))

\* C25: every process_frame call terminates: a call that is under way
\* returns, whatever the other task does; the drain releases no more messages
\* than were queued when the lock was acquired, allocates no more than one
\* frame copy and one buffer per repeat of those messages whichever
\* allocation fails, and adds no more SEI units than their repeat counts
\* add up to.
C25_ProcessFrameTerminates ==
  /\ [][\A t \in Threads :
          InjectorStep(t)
            => LET msgs == QueueMessages(publisher) IN
               /\ publisher'.queue_count <= publisher.queue_count
               /\ publisher.queue_count - publisher'.queue_count <= Len(msgs)
               /\ \A failAt \in Failures :
                    process_frame_locked(publisher, call[t].frame, failAt).allocs
                      <= 1 + TotalRepeats(msgs, 1)
               /\ UnitCount(ret'[t].out.data.buf)
                    <= UnitCount(call[t].frame) + TotalRepeats(msgs, 1)]_vars
  /\ \A t \in Threads :
       (call[t].op = "video_sei_hook_process_frame" /\ pc[t] # "done")
         ~> (pc[t] = "done")

\* a frame call has come back from a drain of three splices
C25_Witness ==
  /\ pc["media"] = "done"
  /\ ret["media"].ok /\ ret["media"].path = "locked"
  /\ failures = 0
  /\ UnitCount(ret["media"].out.data.buf)
       = UnitCount(call["media"].frame) + SEI_DEFAULT_REPEAT_COUNT

\* thread t has come back from the call of op
Came(t, op, path) == pc[t] = "done" /\ call[t].op = op /\ ret[t].path = path

\* C26: for every payload p that enqueue accepts, the unit that
\* create_sei_nal_unit builds before emulation prevention is the start code
\* 00 00 00 01, the NAL header 06, the SEI type 05, the size field of
\* len(p) + 16 (floor((len(p) + 16) / 255) bytes FF and one byte
\* (len(p) + 16) mod 255), the 16 bytes of the UUID, the bytes of p and the
\* termination byte 80; for a payload without a zero byte the escaping
\* leaves that unit as it is.
C26_UnitLayout ==
  \A t \in Threads :
    (Came(t, "create_sei_nal_unit", "encoded")
       /\ Len(call[t].json_str) <= SEI_MAX_PAYLOAD_SIZE)
    => LET p == call[t].json_str
           size == Len(p) + 16
           field == [k \in 1..(size \div 255) |-> 255] \o <<size % 255>>
           temp == call[t].frame
       IN  /\ temp = <<0, 0, 0, 1>> \o <<6, 5>> \o field \o SEND_SEI_UUID \o p \o <<128>>
           /\ Len(temp) = 6 + Len(field) + 16 + Len(p) + 1
           /\ (\A k \in 1..Len(p) : p[k] # 0) => ret[t].out.data = Ptr(temp)

\* a payload of 239 bytes was encoded: the size 255 takes the bytes FF 00
C26_Witness ==
  /\ Came("media", "create_sei_nal_unit", "encoded")
  /\ Len(call["media"].json_str) = 239
  /\ Slice(call["media"].frame, 6, 2) = <<255, 0>>
  /\ Slice(call["media"].frame, 8, 16) = SEND_SEI_UUID

\* the offsets from first on at which buf holds 00 00 and a byte of last
ZeroPairs(buf, first, last) ==
  {i \in first..(Len(buf) - 3) :
     At(buf, i) = 0 /\ At(buf, i + 1) = 0 /\ At(buf, i + 2) \in last}

\* C27 as stated: the output of the escaping keeps the first 4 bytes of its
\* input and holds, from offset 4 on, no byte triple 00 00 xx with xx in
\* {00, 01, 02, 03}.
C27_NoTripleUpToThree ==
  \A t \in Threads :
    Came(t, "do_emulation_prevention", "escaped")
    => LET input == call[t].frame
           output == ret[t].out.data.buf
       IN  /\ Slice(output, 0, Minimum({4, Len(input)})) = Slice(input, 0, Minimum({4, Len(input)}))
           /\ ZeroPairs(output, 4, {0, 1, 2, 3}) = {}

\* C27: the output of the escaping keeps the first 4 bytes of its input (the
\* whole of an input of at most 4 bytes) and holds no byte triple 00 00 xx
\* with xx in {00, 01, 02} that ends beyond those 4 bytes; each 00 00 03 it
\* holds from offset 4 on is followed by a byte of the input, and the output
\* is longer than the input by one byte per 03 that was inserted, never by
\* more than one byte for two of the input.
C27_NoStartCodeEmulation ==
  \A t \in Threads :
    Came(t, "do_emulation_prevention", "escaped")
    => LET input == call[t].frame
           output == ret[t].out.data.buf
           kept == Minimum({4, Len(input)})
       IN  /\ Slice(output, 0, kept) = Slice(input, 0, kept)
           /\ Len(input) <= 4 => output = input
           /\ ZeroPairs(output, 2, {0, 1, 2}) = {}
           /\ \A i \in ZeroPairs(output, 4, {3}) : i + 3 < Len(output)
           /\ ret[t].out.size = Len(output)
           /\ Len(output) >= Len(input)
           /\ 2 * (Len(output) - Len(input)) <= Len(input)

\* 00 00 01 behind four other bytes came out as 00 00 03 01
C27_Witness ==
  /\ Came("media", "do_emulation_prevention", "escaped")
  /\ call["media"].frame = <<4, 4, 4, 4, 0, 0, 1>>
  /\ ret["media"].out.data.buf = <<4, 4, 4, 4, 0, 0, 3, 1>>

\* a receiver reads byte i: a 03 that follows two zero bytes of what it has
\* read is an emulation-prevention byte and is left out; zeros counts those
\* zero bytes
UnescapeStep(buf, acc, i) ==
  IF acc.zeros >= 2 /\ At(buf, i) = 3 THEN [zeros |-> 0, out |-> acc.out]
  ELSE [zeros |-> IF At(buf, i) = 0 THEN acc.zeros + 1 ELSE 0,
        out |-> Append(acc.out, At(buf, i))]

\* the bytes lo..hi-1 read in order
RECURSIVE UnescapeRange(_, _, _, _)
UnescapeRange(buf, acc, lo, hi) ==
  IF lo >= hi THEN acc
  ELSE IF hi - lo = 1 THEN UnescapeStep(buf, acc, lo)
  ELSE LET mid == lo + ((hi - lo) \div 2)
           left == UnescapeRange(buf, acc, lo, mid)
       IN  IF left.zeros >= 0 THEN UnescapeRange(buf, left, mid, hi) ELSE left

\* the bytes of a unit behind its start code, escapes removed
Unescape(unit) == UnescapeRange(unit, [zeros |-> 0, out |-> <<>>], 4, Len(unit)).out

\* a receiver reads the size field at offset i: the bytes FF add 255 each,
\* the first other byte ends the field; it gives the size and the next offset
RECURSIVE ReadSize(_, _, _)
ReadSize(buf, i, sum) ==
  IF i >= Len(buf) THEN [size |-> -1, next |-> i]
  ELSE IF At(buf, i) = 255 THEN ReadSize(buf, i + 1, sum + 255)
  ELSE [size |-> sum + At(buf, i), next |-> i + 1]

\* a receiver scans a unit: start code off, escapes removed, NAL header and
\* SEI type read, size field read, then the identifier and the rest of the
\* declared size
ScanUnit(unit) ==
  LET rbsp == Unescape(unit)
      field == ReadSize(rbsp, 2, 0)
  IN  [start |-> Slice(unit, 0, 4),
       nal |-> At(rbsp, 0),
       type |-> At(rbsp, 1),
       size |-> field.size,
       uuid |-> Slice(rbsp, field.next, 16),
       payload |-> Slice(rbsp, field.next + 16, field.size - 16),
       rest |-> Slice(rbsp, field.next + field.size, Len(rbsp) - field.next - field.size)]

\* C28: for every payload p of at most SEI_MAX_PAYLOAD_SIZE bytes, scanning
\* the unit that create_sei_nal_unit returns (start code off, each 03 behind
\* 00 00 removed, type bytes and size field read) gives back the UUID and p,
\* and the declared size is len(p) + 16; the termination byte is all that
\* follows.
C28_RoundTrip ==
  \A t \in Threads :
    (Came(t, "create_sei_nal_unit", "encoded")
       /\ Len(call[t].json_str) <= SEI_MAX_PAYLOAD_SIZE)
    => LET p == call[t].json_str
           scanned == ScanUnit(ret[t].out.data.buf)
       IN  /\ scanned.start = <<0, 0, 0, 1>>
           /\ scanned.nal = NAL_UNIT_TYPE_SEI
           /\ scanned.type = SEI_TYPE_USER_DATA_UNREGISTERED
           /\ scanned.size = Len(p) + 16
           /\ scanned.uuid = SEND_SEI_UUID
           /\ scanned.payload = p
           /\ scanned.rest = <<SEI_PAYLOAD_TERMINATION>>

\* a payload that ends in 00 00 01 was escaped in the unit and came back
C28_Witness ==
  /\ Came("media", "create_sei_nal_unit", "encoded")
  /\ LastOf(call["media"].json_str, 3) = <<0, 0, 1>>
  /\ LastOf(ret["media"].out.data.buf, 5) = <<0, 0, 3, 1, 128>>
  /\ ScanUnit(ret["media"].out.data.buf).payload = call["media"].json_str

\* C29: the keyframe test is true exactly when the frame holds a NAL unit (a
\* 3-byte or 4-byte start code followed by a header byte) of type 5, 7 or 8,
\* for every frame, those where the start code of that unit begins within
\* the last 4 bytes and those of only 4 bytes included.
C29_KeyframeExactly ==
  \A t \in Threads :
    Came(t, "find_insert_position", "scanned")
    => (ret[t].ok <=> ContainsNal(call[t].frame, {5, 7, 8}))

\* C30: find_insert_position returns the offset of the start code of the
\* first NAL unit of type 1 to 5, and -1 (prepend) only when the frame holds
\* no such unit, for every frame, with 3-byte and 4-byte start codes and
\* wherever the units sit.
C30_FirstSliceOffset ==
  \A t \in Threads :
    Came(t, "find_insert_position", "scanned")
    => LET slices == SliceStarts(call[t].frame) IN
       IF slices = {} THEN ret[t].value = -1
       ELSE ret[t].value = Minimum(slices)

(***************************************************************************)
(* The publisher called directly, with repeat counts of its caller         *)
(***************************************************************************)

\* the application publishes through the facade and through the handle of
\* sei_get_publisher() while the media thread processes frames
NextRepeat ==
  \/ \E json_str \in StreamJsons, repeat_count \in RepeatCounts, now \in Times :
       sends < MaxSend
         /\ sei_publisher_publish_json("cli", json_str, repeat_count, now)
  \/ \E role \in Roles, content \in Contents, now \in Times :
       sends < MaxSend /\ sei_send_json("cli", role, content, now)
  \/ \E failAt \in {0, 1} : publish_json_give("cli", failAt)
  \/ \E frame \in StreamFrames, failAt \in Failures :
       frames < MaxFrames
         /\ video_sei_hook_process_frame("media", frame, failAt)
  \/ \E failAt \in Failures : default_sei_processor("media", failAt)
  \/ \E failAt \in Failures : process_frame_give("media", failAt)
  \/ \E t \in Threads : Return(t)

SpecRepeat == InitStream /\ [][NextRepeat]_vars

\* the repeat count sei_publisher_publish_json is to store for a call
StoredRepeat(c) ==
  IF c.op \in FacadeOps THEN SEI_DEFAULT_REPEAT_COUNT
  ELSE IF c.repeat_count <= 0 THEN SEI_DEFAULT_REPEAT_COUNT
  ELSE c.repeat_count

\* every message in the queue repeats at least once and is no longer than
\* SEI_MAX_PAYLOAD_SIZE
ResidentBounds(pub) ==
  \A k \in 1..pub.queue_count :
    /\ QueueMessages(pub)[k].repeat_count >= 1
    /\ QueueMessages(pub)[k].payload_size <= SEI_MAX_PAYLOAD_SIZE
    /\ QueueMessages(pub)[k].payload # NULL
         => Len(QueueMessages(pub)[k].payload.buf) <= SEI_MAX_PAYLOAD_SIZE

\* C31: every message in the queue has a repeat count of at least 1 and a
\* payload of at most SEI_MAX_PAYLOAD_SIZE bytes; a message enqueued through
\* the facade carries the default of 3, and an enqueue with a repeat count of
\* 0 or less stores the default.
C31_RepeatAndLengthBounds ==
  /\ ResidentBounds(publisher)
  /\ [][/\ ResidentBounds(publisher')
        /\ \A t \in Threads :
             (pc[t] = "publish_json_locked" /\ pc'[t] = "done" /\ ret'[t].ok)
               => /\ publisher'.queue_count > 0
                  /\ QueueMessages(publisher')[publisher'.queue_count].repeat_count
                       = StoredRepeat(call[t])
                  /\ (call[t].op \notin FacadeOps /\ call[t].repeat_count > 0)
                       => StoredRepeat(call[t]) = call[t].repeat_count]_vars

\* an enqueue with a repeat count below 1 has stored a message of
\* SEI_MAX_PAYLOAD_SIZE bytes with the default
C31_Witness ==
  /\ pc["cli"] = "done"
  /\ call["cli"].op = "sei_publisher_publish_json"
  /\ call["cli"].repeat_count <= 0
  /\ ret["cli"].ok
  /\ publisher.queue_count > 0
  /\ QueueMessages(publisher)[publisher.queue_count].repeat_count
       = SEI_DEFAULT_REPEAT_COUNT
  /\ QueueMessages(publisher)[publisher.queue_count].payload_size
       = SEI_MAX_PAYLOAD_SIZE

(***************************************************************************)
(* Statistics over a run of frames                                         *)
(***************************************************************************)
\* messages are sent and frames processed while the application reads and
\* resets the statistics of the hook
NextStats ==
  \/ \E role \in Roles, content \in Contents, now \in Times :
       sends < MaxSend /\ sei_send_json("cli", role, content, now)
  \/ \E failAt \in {0, 1} : publish_json_give("cli", failAt)
  \/ video_sei_hook_get_stats("cli")
  \/ get_stats_give("cli")
  \/ video_sei_hook_reset_stats("cli")
  \/ reset_stats_give("cli")
  \/ \E frame \in StreamFrames, failAt \in Failures :
       frames < MaxStreamFrames
         /\ video_sei_hook_process_frame("media", frame, failAt)
  \/ \E failAt \in Failures : default_sei_processor("media", failAt)
  \/ \E failAt \in Failures : process_frame_give("media", failAt)
  \/ \E t \in Threads : Return(t)

SpecStats == InitStream /\ [][NextStats]_vars

\* the processor ran in the frame call that returns in this step of thread t
RanProcessor(t) == pc[t] \in {"hook_locked", "process_frame_locked"}

\* C32: total_sei_bytes is the sum, over the successful frame-processing
\* calls since the last reset in which the processor ran, of output size
\* minus input size: it is 0 at the start and after a reset, each such call
\* adds its growth as it returns, and a call that fell back on the copy when
\* the hook mutex was not acquired, a failed call, a call that adds nothing
\* and every other step leave it as it is.  The sums here stay below 2^32,
\* where the sum and its residue are the same number.
C32_TotalSeiBytesIsSum ==
  /\ g_hook.total_sei_bytes = 0
  /\ [][IF ResetStep THEN g_hook'.total_sei_bytes = 0
        ELSE g_hook'.total_sei_bytes =
               g_hook.total_sei_bytes
                 + (IF \E t \in Threads : FrameReturn(t) /\ RanProcessor(t) /\ ret'[t].ok
                    THEN LET t == CHOOSE u \in Threads :
                                    FrameReturn(u) /\ RanProcessor(u) /\ ret'[u].ok
                         IN  ret'[t].out.size - Len(call[t].frame)
                    ELSE 0)]_vars

\* a second frame has come back larger than it went in and the counter holds
\* more than that frame's growth
C32_Witness ==
  /\ pc["media"] = "done" /\ ret["media"].ok /\ ret["media"].path = "locked"
  /\ frames = 2
  /\ ret["media"].out.size > Len(call["media"].frame)
  /\ g_hook.total_sei_bytes > ret["media"].out.size - Len(call["media"].frame)

(***************************************************************************)
(* C33                                                                     *)
(***************************************************************************)
\* slot k is one of the queue_count slots that start at queue_head
InLiveRange(pub, k) ==
  \E j \in 0..(pub.queue_count - 1) : k = (pub.queue_head + j) % SEI_MAX_QUEUE_SIZE

\* the slots of the live range hold allocated payloads and no other slot does:
\* nothing in the range is null or freed, nothing out of it is left allocated
SlotsSound(pub) ==
  \A k \in 0..(SEI_MAX_QUEUE_SIZE - 1) :
    InLiveRange(pub, k) <=> pub.message_queue[k].payload.st = "live"

\* thread t's step is the critical section of an enqueue
EnqueueStep(t) == pc[t] = "publish_json_locked" /\ pc'[t] = "done"

\* C33: every payload an enqueue allocates is freed once (consumed by a frame,
\* evicted or cleared) and not read or freed after that, whatever the
\* interleaving of enqueues, frame calls and clears: the slots of the live
\* range [head, head + count) hold allocated payloads and no other slot does;
\* a payload leaves its slot only from the live range, in a drain, in a clear,
\* or at the head in an enqueue into the full queue; and a payload enters a
\* slot only in a successful enqueue, in the slot that follows the live range.
C33_PayloadsFreedOnce ==
  /\ SlotsSound(publisher)
  /\ [][/\ SlotsSound(publisher')
        /\ \A k \in 0..(SEI_MAX_QUEUE_SIZE - 1) :
             LET old == publisher.message_queue[k].payload
                 new == publisher'.message_queue[k].payload
             IN  /\ (old.st = "live" /\ new # old)
                      => /\ InLiveRange(publisher, k)
                         /\ \/ \E t \in Threads : InjectorStep(t)
                            \/ ClearingStep
                            \/ EvictingStep /\ k = publisher.queue_head
                 /\ (new.st = "live" /\ new # old)
                      => \E t \in Threads :
                           /\ EnqueueStep(t) /\ ret'[t].ok
                           /\ k = publisher.queue_tail
                           /\ k = (publisher'.queue_head + publisher'.queue_count - 1)
                                    % SEI_MAX_QUEUE_SIZE]_vars

\* an enqueue into the full queue has freed the oldest payload and stored its
\* own in the slot that payload had
C33_Witness ==
  /\ pc["cli"] = "done" /\ call["cli"].op = "sei_publisher_publish_json"
  /\ ret["cli"].ok
  /\ frames = 0 /\ clears = 0 /\ sends = 2 /\ failures = 0
  /\ publisher.queue_count = SEI_MAX_QUEUE_SIZE
  /\ publisher.queue_head = publisher.queue_tail

(***************************************************************************)
(* C34                                                                     *)
(***************************************************************************)
\* buf is the frame with the run of units put in at one offset
HoldsRun(buf, frame, units) ==
  \E i \in 0..Len(frame) :
    buf = Slice(frame, 0, i) \o units \o Slice(frame, i, Len(frame) - i)

\* C34: a keyframe that drains several messages carries their SEI units in
\* enqueue order, all repeats of the oldest message first and those of the
\* newest last, both when the frame holds a slice NAL unit and when it holds
\* none and the units are put at offset 0.
C34_UnitsInEnqueueOrder ==
  [][\A t \in Threads :
       (/\ InjectorStep(t)
        /\ ContainsNal(call[t].frame, {5, 7, 8})
        /\ publisher.queue_count > 0
        /\ NoAllocationFailure)
       => /\ ret'[t].ok
          /\ HoldsRun(ret'[t].out.data.buf, call[t].frame,
                      UnitsFrom(QueueMessages(publisher), 1))]_vars

(***************************************************************************)
(* C35                                                                     *)
(***************************************************************************)
\* thread t's enqueue returns in this step
EnqueueReturn(t) ==
  /\ pc[t] \in {"idle", "publish_json_locked"}
  /\ pc'[t] = "done"
  /\ call'[t].op \in FacadeOps \cup {"sei_publisher_publish_json"}

\* C35: an enqueue that returns failure (string longer than
\* SEI_MAX_PAYLOAD_SIZE, mutex not acquired in 100 ms, payload allocation
\* failed) leaves the queue exactly as it was, also when the queue was full.
C35_FailedEnqueueKeepsQueue ==
  [][\A t \in Threads :
       (EnqueueReturn(t) /\ ~ret'[t].ok) => SameQueue(publisher, publisher')]_vars

(***************************************************************************)
(* C36                                                                     *)
(***************************************************************************)
\* head and tail are slot indices, count is at most the capacity, and the
\* tail is count slots behind the head
RingConsistent(pub) ==
  /\ pub.queue_head \in 0..(SEI_MAX_QUEUE_SIZE - 1)
  /\ pub.queue_tail \in 0..(SEI_MAX_QUEUE_SIZE - 1)
  /\ pub.queue_count \in 0..SEI_MAX_QUEUE_SIZE
  /\ pub.queue_tail = (pub.queue_head + pub.queue_count) % SEI_MAX_QUEUE_SIZE

\* C36: the ring buffer is consistent in every state: queue_tail equals
\* (queue_head + queue_count) mod SEI_MAX_QUEUE_SIZE and both indices are in
\* 0 .. SEI_MAX_QUEUE_SIZE - 1; and a clear that acquired the mutex leaves
\* count = 0 and head = tail = 0.
C36_RingConsistent ==
  /\ RingConsistent(publisher)
  /\ [][/\ RingConsistent(publisher')
        /\ ClearingStep
             => /\ publisher'.queue_count = 0
                /\ publisher'.queue_head = 0
                /\ publisher'.queue_tail = 0]_vars

\* a clear has emptied a queue that an enqueue into the full queue had turned
\* past slot 0
C36_Witness ==
  /\ pc["cli"] = "done" /\ call["cli"].op = "sei_clear_queue"
  /\ ret["cli"].ok /\ ret["cli"].path = "locked"
  /\ sends = 2 /\ frames = 0 /\ failures = 0
  /\ publisher.queue_count = 0
  /\ publisher.queue_head = 0
  /\ publisher.queue_tail = 0

(***************************************************************************)
(* Every locking operation, interleaved                                    *)
(***************************************************************************)
\* the processors the application hands to video_sei_hook_set_processor: it
\* has none of its own, and NULL stands for the default
Processors == {"NULL"}

\* video_sei_hook_set_processor(NULL, NULL) up to
\* xSemaphoreTake(g_hook.mutex, 100 ms)
video_sei_hook_set_processor(t, processor) ==
  LET c == [NoCall EXCEPT !.op = "video_sei_hook_set_processor"] IN
  /\ pc[t] = "idle"
  /\ processor = "NULL"
  /\ IF ~g_hook.initialized
     THEN Finish(t, c, NoRet) /\ g_hook' = g_hook
     ELSE IF g_hook.mutex # NoThread
          THEN Finish(t, c, [NoRet EXCEPT !.path = "timeout"]) /\ g_hook' = g_hook
     ELSE Enter(t, c, "set_processor_locked")
            /\ g_hook' = [g_hook EXCEPT !.mutex = t]
  /\ UNCHANGED <<g_sei_publisher, publisher, sends, frames, clears, failures>>

\* the end of set_processor, were the mutex kept
set_processor_give_held(t) ==
  /\ pc[t] = "set_processor_locked"
  /\ g_hook' = [g_hook EXCEPT !.custom_processor = "default_sei_processor"]
  /\ Finish(t, call[t], [NoRet EXCEPT !.ok = TRUE, !.path = "locked"])
  /\ UNCHANGED <<g_sei_publisher, publisher, sends, frames, clears, failures>>

\* "g_hook.custom_processor = processor ? processor : default_sei_processor"
\* with processor NULL, xSemaphoreGive
set_processor_give(t) ==
  /\ pc[t] = "set_processor_locked"
  /\ g_hook' = [g_hook EXCEPT !.custom_processor = "default_sei_processor",
                              !.mutex = NoThread]
  /\ Finish(t, call[t], [NoRet EXCEPT !.ok = TRUE, !.path = "locked"])
  /\ UNCHANGED <<g_sei_publisher, publisher, sends, frames, clears, failures>>

\* enqueue, clear, size query, set_processor, get_stats and reset_stats on the
\* application's thread against frame calls on the media thread
NextLocks ==
  \/ \E role \in Roles, content \in Contents, now \in Times :
       sends < MaxSend /\ sei_send_json("cli", role, content, now)
  \/ \E failAt \in {0, 1} : publish_json_give("cli", failAt)
  \/ clears < MaxClear /\ sei_clear_queue("cli")
  \/ clear_queue_give("cli")
  \/ sei_get_queue_status("cli")
  \/ get_queue_size_give("cli")
  \/ \E processor \in Processors : video_sei_hook_set_processor("cli", processor)
  \/ set_processor_give("cli")
  \/ video_sei_hook_get_stats("cli")
  \/ get_stats_give("cli")
  \/ video_sei_hook_reset_stats("cli")
  \/ reset_stats_give("cli")
  \/ \E frame \in StreamFrames, failAt \in Failures :
       frames < MaxFrames
         /\ video_sei_hook_process_frame("media", frame, failAt)
  \/ \E failAt \in Failures : default_sei_processor("media", failAt)
  \/ \E failAt \in Failures : process_frame_give("media", failAt)
  \/ \E t \in Threads : Return(t)

SpecLocks == InitStream /\ [][NextLocks]_vars

\* the critical sections of the hook mutex and those that end by returning
HookSections ==
  {"hook_locked", "process_frame_locked", "get_stats_locked", "reset_stats_locked",
   "set_processor_locked"}

\* thread t leaves the critical section it is in and its call returns: the
\* sections are straight-line code and loops over the queue
SectionEnds(t) ==
  /\ pc[t] \in (PublisherSections \cup HookSections) \ {"hook_locked"}
  /\ pc' = [pc EXCEPT ![t] = "done"]

\* a task that is inside a call goes on running
SpecLocksFair ==
  SpecLocks /\ WF_vars(ProcessorStep) /\ \A t \in Threads : WF_pc(SectionEnds(t))

\* C37: every operation that takes the publisher or the hook mutex gives it
\* on every return path, and the only nested acquisition is the hook's mutex
\* and then the publisher's: a mutex is held exactly by the thread that is
\* inside one of its critical sections, the hook's mutex is never taken by a
\* thread that holds the publisher's, and in every interleaving of enqueue,
\* frame call, clear, size query, set_processor, get_stats and reset_stats
\* every call that has begun returns and every mutex that is held is given.
C37_LocksReleasedNoDeadlock ==
  /\ [][/\ \A t \in Threads :
             /\ publisher'.mutex = t <=> pc'[t] \in PublisherSections
             /\ g_hook'.mutex = t <=> pc'[t] \in HookSections
             /\ (g_hook'.mutex = t /\ g_hook.mutex # t) => publisher.mutex # t
        /\ publisher'.mutex \in Threads \cup {NoThread}
        /\ g_hook'.mutex \in Threads \cup {NoThread}]_vars
  /\ \A t \in Threads : (pc[t] \notin {"idle", "done"}) ~> (pc[t] = "done")
  /\ (publisher.mutex # NoThread) ~> (publisher.mutex = NoThread)
  /\ (g_hook.mutex # NoThread) ~> (g_hook.mutex = NoThread)

\* the media thread holds both mutexes, the hook's taken first, and an
\* enqueue has given up on the publisher's
C37_Witness ==
  /\ pc["media"] = "process_frame_locked"
  /\ g_hook.mutex = "media" /\ publisher.mutex = "media"
  /\ pc["cli"] = "done" /\ call["cli"].op = "sei_send_json"
  /\ ret["cli"].path = "timeout"

(***************************************************************************)
(* C38                                                                     *)
(***************************************************************************)
\* C38: no thread uses the publisher after sei_deinit has freed it, nor the
\* hook mutex after video_sei_hook_deinit has deleted it: a thread inside a
\* critical section of the publisher finds the publisher in being until it
\* has returned, and a thread inside a critical section of the hook finds
\* the hook initialized and its mutex its own.
C38_NoUseAfterDeinit ==
  \A t \in Threads :
    /\ pc[t] # "undefined"
    /\ pc[t] \in PublisherSections => g_sei_publisher
    /\ pc[t] \in HookSections => g_hook.initialized /\ g_hook.mutex = t

(***************************************************************************)
(* C39                                                                     *)
(***************************************************************************)
\* a payload the queue can hold: a C string (no zero byte) of at most
\* SEI_MAX_PAYLOAD_SIZE bytes
CanBeResident(payload) ==
  /\ Len(payload) <= SEI_MAX_PAYLOAD_SIZE
  /\ \A i \in 1..Len(payload) : payload[i] # 0

\* C39: for every message that can be resident, the unit before escaping
\* (temp_buffer) and the emulation-prevented unit (sei_unit) fit in their
\* buffers of SEI_MAX_PAYLOAD_SIZE + 100 bytes: the encoded unit is never
\* longer than 500 bytes.
C39_UnitFitsBuffers ==
  \A t \in Threads :
    (Came(t, "create_sei_nal_unit", "encoded") /\ CanBeResident(call[t].json_str))
      => /\ Len(call[t].frame) <= SEI_UNIT_BUFFER_SIZE
         /\ ret[t].out.size = Len(ret[t].out.data.buf)
         /\ ret[t].out.size <= SEI_UNIT_BUFFER_SIZE
         /\ ret[t].out.size <= 500

\* a message of SEI_MAX_PAYLOAD_SIZE bytes has been encoded into a unit that
\* is longer than the message and its 25 bytes of header and termination
C39_Witness ==
  /\ Came("media", "create_sei_nal_unit", "encoded")
  /\ CanBeResident(call["media"].json_str)
  /\ Len(call["media"].json_str) = SEI_MAX_PAYLOAD_SIZE
  /\ Len(call["media"].frame) = SEI_MAX_PAYLOAD_SIZE + 25
  /\ ret["media"].out.size >= Len(call["media"].frame)

(***************************************************************************)
(* Frames of a few bytes                                                   *)
(***************************************************************************)
\* frames up to MaxFrameLen bytes of start code bytes and the header of an
\* SPS, and an IDR slice of 5 bytes
ShortFrames == Strings({0, 1, 103}, MaxFrameLen) \cup {<<0, 0, 1, 101, 136>>}

\* the media thread processes short frames
NextShort ==
  \/ \E frame \in ShortFrames, failAt \in Failures :
       frames < MaxFrames /\ video_sei_hook_process_frame("media", frame, failAt)
  \/ \E failAt \in Failures : default_sei_processor("media", failAt)
  \/ \E failAt \in Failures : process_frame_give("media", failAt)
  \/ \E t \in Threads : Return(t)

SpecShort == InitStream /\ [][NextShort]_vars

\* the buffers insert_sei_unit hands to find_insert_position in a drain that
\* starts at repeat i of message k with the working frame current
RECURSIVE WorkingFrames(_, _, _, _)
WorkingFrames(current, msgs, k, i) ==
  IF k > Len(msgs) THEN {}
  ELSE IF i >= msgs[k].repeat_count THEN WorkingFrames(current, msgs, k + 1, 0)
  ELSE {current}
         \cup WorkingFrames(
                insert_sei_unit(current,
                                create_sei_nal_unit(SEND_SEI_UUID,
                                                    Slice(msgs[k].payload.buf, 0,
                                                          msgs[k].payload_size))),
                msgs, k, i + 1)

\* every index the scan of the frame reads is inside the frame
ScanInsideFrame(frame) ==
  /\ Len(frame) - 4 >= 0
  /\ find_insert_position(frame) # ScanOutOfBounds
  /\ \A i \in ScanHits(frame) : i + 3 < Len(frame)
  /\ \A i \in ScanHits(frame) : ~StartCode3(frame, i) => i + 4 < Len(frame)

\* C40: find_insert_position is only ever called on a working frame of at
\* least 5 bytes: the splicing is reached only after the keyframe test has
\* succeeded and the working frame only grows, so that frame_size - 4 does
\* not wrap and every index read is inside the frame.
C40_ScanOnFiveBytesOrMore ==
  [][\A t \in Threads :
       SplicingStep(t)
         => \A frame \in WorkingFrames(call[t].frame, QueueMessages(publisher), 1, 0) :
              /\ Len(frame) >= 5
              /\ Len(frame) >= Len(call[t].frame)
              /\ ScanInsideFrame(frame)]_vars

\* a keyframe of 5 bytes has been spliced
C40_Witness ==
  /\ pc["media"] = "done" /\ ret["media"].ok /\ ret["media"].path = "locked"
  /\ Len(call["media"].frame) = 5
  /\ is_keyframe(call["media"].frame)
  /\ ret["media"].out.size > 5

============================================================================
